---- MODULE Spec2Model ----
(***************************************************************************)
(* Environment lifecycle of jack-michaud/ephemeral-environments:           *)
(*   deployer/handler.py   handle_deploy, handle_destroy                   *)
(*   deployer/ec2_manager.py, ssm_commands.py, cloudflare_api.py           *)
(*   cleanup/handler.py    lambda_handler, stop_environment,               *)
(*                         terminate_environment                           *)
(*   reconciler/handler.py PRReconcilerService                             *)
(* Every unit of work (one handle_deploy, one handle_destroy, one sweep,   *)
(* one reconcile) is a process whose steps are the calls it makes to the   *)
(* registry (DynamoDB), the compute driver (EC2), the command runner       *)
(* (SSM), the tunnel broker (Cloudflare) and the pull-request host.        *)
(***************************************************************************)
EXTENDS Integers, Sequences, FiniteSets, TLC

(***************************************************************************)
(* Bounds of the model.                                                    *)
(***************************************************************************)
\* number of handle_deploy executions in one behaviour
MaxDeploys == 2
\* number of handle_destroy executions in one behaviour
MaxDestroys == 2
\* number of sweeps (cleanup lambda_handler runs) in one behaviour
MaxSweeps == 4
\* number of reconcile() runs in one behaviour
MaxReconciles == 1
\* number of times the wall clock is observed to advance
MaxTicks == 2
\* number of collaborator calls that fail, time out or answer abnormally
MaxFaults == 1

(***************************************************************************)
(* Program constants.                                                      *)
(***************************************************************************)
\* cleanup/handler.py:24  AUTO_STOP_HOURS default
AUTO_STOP_HOURS == 4
\* cleanup/handler.py:50  terminate_threshold = now - timedelta(hours=24)
TERMINATE_HOURS == 24
\* ec2_manager.py:47  wait_for_instance(timeout=300), seconds
WAIT_TIMEOUT == 300
\* ec2_manager.py:55 and 62  the Delay of the two waiters, seconds
RUNNING_DELAY == 5
STATUS_DELAY == 10
\* ec2_manager.py:68 and 78  the agent loop: 120 seconds, sleep(10)
AGENT_TIMEOUT == 120
AGENT_SLEEP == 10
\* ssm_commands.py:21  run_command(max_retries=30)
MAX_RETRIES == 30
\* ssm_commands.py:183  run_command(..., timeout=300), seconds
START_TIMEOUT == 300
\* ssm_commands.py:91  time.sleep(1) between two polls
POLL_SLEEP == 1

Deployers == 1..MaxDeploys

\* identity keys pk = f"{repo}#{pr_number}"
Keys == {"org/app#42"}

\* deploy intents {repo, prNumber, branch, sha}
Intents ==
  { [key |-> "org/app#42", branch |-> "feat-x", sha |-> "abc12345"],
    [key |-> "org/app#42", branch |-> "feat-y", sha |-> "def67890"] }

Shas == { i.sha : i \in Intents }

\* amounts by which the wall clock (in hours) is seen to advance
TickSteps == {AUTO_STOP_HOURS + 1, TERMINATE_HOURS + 1}

(***************************************************************************)
(* Values.                                                                 *)
(***************************************************************************)
\* Python None for an instance id / tunnel id / timestamp / string
NoId == 0
NoTime == -1
NoStr == "None"

\* one line of the command's standard output, cut at the places the
\* pattern of handler.py:242 looks at
Line(key, scheme, label, domain) ==
  [key |-> key, scheme |-> scheme, label |-> label, domain |-> domain]

NoUrl == [scheme |-> NoStr, label |-> NoId, domain |-> NoStr]

\* the item DynamoDB holds for a key; present = FALSE when there is none
NoItem ==
  [ present |-> FALSE, status |-> NoStr, ec2_instance_id |-> NoId,
    tunnel_id |-> NoId, tunnel_url |-> NoUrl, branch |-> NoStr,
    sha |-> NoStr, error_message |-> NoStr, created_at |-> NoTime,
    updated_at |-> NoTime, last_activity |-> NoTime ]

VARIABLES
  table,        \* environments_table: key -> item
  builds,       \* builds_table: set of items keyed by (environment_id, build_id)
  hosts,        \* EC2: instance id -> [state, key]
  tunnelCalls,  \* tunnel ids a delete was issued for at the tunnel broker
  ghStatus,     \* commit status per sha: last state posted
  comments,     \* deploy executions that posted the pull-request comment
  prState,      \* pull request of each key: "open", "closed", "notfound"
  clock,        \* wall clock, hours
  ticks,        \* number of clock advances so far
  nFaults,      \* number of collaborator faults so far
  dep,          \* handle_deploy executions: locals and position
  des,          \* handle_destroy execution: locals and position
  nDestroys,    \* handle_destroy executions started so far
  swp,          \* sweeps (cleanup lambda_handler): locals and position
  rec,          \* reconcile(): locals and position
  nReconciles,  \* reconcile() runs started so far
  putOrder,     \* history: deploy executions in the order of their put_item
  doneOrder     \* history: deploy executions in the order they returned

vars == << table, builds, hosts, tunnelCalls, ghStatus, comments, prState,
           clock, ticks, nFaults, dep, des, nDestroys, swp, rec, nReconciles,
           putOrder, doneOrder >>

\* the variables of each unit of work and of the world around them
envVars == << prState, clock, ticks >>
notifyVars == << ghStatus, comments >>
deployVars == << dep, putOrder, doneOrder >>
destroyVars == << des, nDestroys >>
sweepVars == << swp >>
reconcileVars == << rec, nReconciles >>

\* the outcomes a collaborator call can have: it may fail while the
\* behaviour has faults left
Outcomes == IF nFaults < MaxFaults THEN {TRUE, FALSE} ELSE {TRUE}
Fault(ok) == nFaults' = IF ok THEN nFaults ELSE nFaults + 1

(***************************************************************************)
(* Compute driver (EC2).  A host is "none" before it is launched.          *)
(***************************************************************************)
HostStates == {"none", "pending", "running", "stopped", "terminated"}
LiveStates == {"pending", "running", "stopped"}

\* repo and pr_number of the message each key is built from
\* (handler.py:155-162, pk = f"{repo}#{pr_number}")
KeyParts == ("org/app#42" :> [repo |-> "org/app", pr_number |-> 42])

\* the key a repository and a pull-request number name, if any
pk_of(repo, n) ==
  IF \E k \in Keys : KeyParts[k] = [repo |-> repo, pr_number |-> n]
  THEN CHOOSE k \in Keys : KeyParts[k] = [repo |-> repo, pr_number |-> n]
  ELSE NoStr

\* a string of a tag value is the sequence of its characters
DigitChars == << "0", "1", "2", "3", "4", "5", "6", "7", "8", "9" >>
IsDigit(c) == \E n \in 1..Len(DigitChars) : DigitChars[n] = c
DigitValue(c) == (CHOOSE n \in 1..Len(DigitChars) : DigitChars[n] = c) - 1

\* str(pr_number) of handler.py:213
RECURSIVE str_of(_)
str_of(n) ==
  IF n < Len(DigitChars) THEN << DigitChars[n + 1] >>
  ELSE Append(str_of(n \div Len(DigitChars)),
              DigitChars[(n % Len(DigitChars)) + 1])

\* int(pr_number_str) of reconciler/handler.py:191 raises ValueError
\* unless the string is a number
ParsesAsInt(str) == str # << >> /\ \A j \in 1..Len(str) : IsDigit(str[j])

RECURSIVE int_of(_)
int_of(str) ==
  IF str = << >> THEN 0
  ELSE int_of(SubSeq(str, 1, Len(str) - 1)) * Len(DigitChars)
       + DigitValue(str[Len(str)])

\* the Repository and PRNumber tags of handler.py:211-215
TagsOf(key) ==
  [ Repository |-> KeyParts[key].repo,
    PRNumber |-> str_of(KeyParts[key].pr_number) ]

NoTags == [Repository |-> "", PRNumber |-> << >>]

\* tag values that name no key: an empty PRNumber, an empty Repository, a
\* PRNumber that is not a number
ForeignTags ==
  { [Repository |-> "org/app", PRNumber |-> << >>],
    [Repository |-> "", PRNumber |-> << "4", "2" >>],
    [Repository |-> "org/app", PRNumber |-> << "4", "x" >>] }

NoHost == [state |-> "none", key |-> NoStr, agent |-> FALSE, tags |-> NoTags]

IsLive(h, i) == h[i].state \in LiveStates

\* ec2.run_instances with the Repository/PRNumber tags of handler.py:211-215
launch_instance(h, i, key) ==
  [h EXCEPT ![i] = [state |-> "pending", key |-> key, agent |-> FALSE,
                    tags |-> TagsOf(key)]]

\* ec2.terminate_instances; ok = FALSE is a call the driver rejects.  The
\* callers that swallow the exception see the same hosts either way.
terminate_instances(h, i, ok) ==
  IF ok /\ i \in DOMAIN h /\ h[i].state \in LiveStates
  THEN [h EXCEPT ![i].state = "terminated"]
  ELSE h

\* ec2.stop_instances: only a running (or already stopped) host can be stopped
stop_instances(h, i, ok) ==
  IF ok /\ i \in DOMAIN h /\ h[i].state = "running"
  THEN [h EXCEPT ![i].state = "stopped"]
  ELSE h

\* variant of terminate_instance that never reaches the driver
terminate_instance_unsent(h, i, ok) == h

\* EC2Manager.terminate_instance: the exception is logged and swallowed
terminate_instance(h, i, ok) == terminate_instances(h, i, ok)

(***************************************************************************)
(* Registry (DynamoDB).                                                    *)
(***************************************************************************)
\* variant of RunningItem that leaves the tunnel attributes out
RunningItemBare(branch, sha, instance_id, tunnel_id, tunnel_url, now) ==
  [ present |-> TRUE, status |-> "running", ec2_instance_id |-> instance_id,
    tunnel_id |-> NoId, tunnel_url |-> NoUrl, branch |-> branch,
    sha |-> sha, error_message |-> NoStr, created_at |-> now,
    updated_at |-> now, last_activity |-> now ]

\* put_item of handler.py:254-267: the whole item is replaced
RunningItem(branch, sha, instance_id, tunnel_id, tunnel_url, now) ==
  [ present |-> TRUE, status |-> "running", ec2_instance_id |-> instance_id,
    tunnel_id |-> tunnel_id, tunnel_url |-> tunnel_url, branch |-> branch,
    sha |-> sha, error_message |-> NoStr, created_at |-> now,
    updated_at |-> now, last_activity |-> now ]

\* variant of update_status that also renews last_activity
update_status_renewing(item, status, now) ==
  [item EXCEPT !.present = TRUE, !.status = status, !.updated_at = now,
               !.last_activity = now]

\* variant of update_status that leaves updated_at as it was
update_status_untimed(item, status, now) ==
  [item EXCEPT !.present = TRUE, !.status = status]

\* variant of update_status that also rewrites created_at
update_status_recreating(item, status, now) ==
  [item EXCEPT !.present = TRUE, !.status = status, !.updated_at = now,
               !.created_at = now]

\* update_item 'SET #status = :status, updated_at = :now': the other
\* attributes are kept, and an item is created when there is none
update_status(item, status, now) ==
  [item EXCEPT !.present = TRUE, !.status = status, !.updated_at = now]

\* variant of update_failed that leaves error_message out of the update
update_failed_without_message(item, error, now) ==
  [item EXCEPT !.present = TRUE, !.status = "failed", !.updated_at = now]

\* update_item 'SET #status = :status, error_message = :error, updated_at = :now'
update_failed(item, error, now) ==
  [item EXCEPT !.present = TRUE, !.status = "failed",
               !.error_message = error, !.updated_at = now]

(***************************************************************************)
(* Command output and the tunnel-URL pattern.                              *)
(***************************************************************************)
\* r'TUNNEL_URL=(https://[a-zA-Z0-9-]+\.trycloudflare\.com)' on one line
LineMatches(l) ==
  /\ l.key = "TUNNEL_URL"
  /\ l.scheme = "https"
  /\ l.label # NoId
  /\ l.domain = "trycloudflare.com"

\* re.search: the index of the first match in stdout, 0 when there is none
RECURSIVE SearchFrom(_, _)
SearchFrom(stdout, i) ==
  IF i > Len(stdout) THEN 0
  ELSE IF LineMatches(stdout[i]) THEN i
  ELSE SearchFrom(stdout, i + 1)

url_match(stdout) == SearchFrom(stdout, 1)

\* url_match.group(1)
MatchedUrl(stdout) ==
  LET l == stdout[url_match(stdout)]
  IN  [scheme |-> l.scheme, label |-> l.label, domain |-> l.domain]

\* tunnel_url.replace('https://', '').replace('.trycloudflare.com', '')
TunnelIdOf(url) == url.label

\* what the command of execution d can print
LogLine == Line("LOG", NoStr, NoId, NoStr)
GoodLine(d) == Line("TUNNEL_URL", "https", d, "trycloudflare.com")
HttpLine(d) == Line("TUNNEL_URL", "http", d, "trycloudflare.com")
GoodStdout(d) == << LogLine, GoodLine(d), LogLine >>
Stdouts(d) == { GoodStdout(d), << LogLine >>, << HttpLine(d) >> }


(***************************************************************************)
(* handle_deploy (deployer/handler.py:150-338), one execution per d.       *)
(***************************************************************************)
DeployIdle ==
  [ pc |-> "idle", key |-> NoStr, branch |-> NoStr, sha |-> NoStr,
    existing |-> NoItem, commit |-> FALSE, instance_id |-> NoId,
    stdout |-> << >>, tunnel_url |-> NoUrl, tunnel_id |-> NoId,
    err |-> NoStr, build_t |-> << >>, agent_timeout |-> FALSE,
    result |-> NoStr, swallowed |-> {}, attempt |-> 0, elapsed |-> 0 ]

\* the instance id run_instances gives execution d
NewInstanceId(d) == d

\* the exception reaches the except clause of handler.py:313
Raise(d, error) ==
  dep' = [dep EXCEPT ![d].pc = "fail_status", ![d].err = error,
                     ![d].stdout = << >>, ![d].attempt = 0,
                     ![d].elapsed = 0]

\* int(time.time()) of line 163 as the hour of the clock and the second
\* within it: an execution reads a second of its own, or the second read
\* by an execution that has started and made no call of its try block yet
StartTimes(d) ==
  { << clock, d >> } \cup
  { dep[e].build_t : e \in { f \in Deployers \ {d} :
                                dep[f].pc = "pending_status" } }

\* lines 155-180: read the message, get_item, get_secret; an exception
\* here is outside the try and leaves handle_deploy at once
DeployStart(d, m) ==
  /\ dep[d].pc = "idle"
  /\ \A e \in Deployers : e < d => dep[e].pc # "idle"
  /\ \E ok \in Outcomes, t \in StartTimes(d) :
       /\ Fault(ok)
       /\ dep' = [dep EXCEPT ![d] =
                    [ DeployIdle EXCEPT
                        !.pc = IF ok THEN "pending_status" ELSE "done",
                        !.result = IF ok THEN NoStr ELSE "raised",
                        !.err = IF ok THEN NoStr ELSE "get_secret",
                        !.key = m.key, !.branch = m.branch, !.sha = m.sha,
                        !.existing = IF ok THEN table[m.key] ELSE NoItem,
                        !.build_t = t ]]
       /\ doneOrder' = IF ok THEN doneOrder ELSE Append(doneOrder, d)
  /\ UNCHANGED << table, builds, hosts, tunnelCalls, notifyVars, envVars,
                  destroyVars, sweepVars, reconcileVars, putOrder >>

\* lines 182-197: token, get_commit, create_status('pending'), get_repo_config
DeployNotifyPending(d) ==
  /\ dep[d].pc = "pending_status"
  /\ \E out \in {"ok"} \cup
                 IF nFaults < MaxFaults
                 THEN {"no_commit", "pending_status", "repo_config"} ELSE {} :
       /\ Fault(out = "ok")
       /\ dep' = [dep EXCEPT
                    ![d].commit = (out # "no_commit"),
                    ![d].pc = IF out = "ok" THEN "teardown" ELSE "fail_status",
                    ![d].err = IF out = "ok" THEN NoStr ELSE out]
       /\ ghStatus' = IF out \in {"ok", "repo_config"}
                      THEN [ghStatus EXCEPT ![dep[d].sha] = "pending"]
                      ELSE ghStatus
  /\ UNCHANGED << table, builds, hosts, tunnelCalls, comments, envVars,
                  destroyVars, sweepVars, reconcileVars, putOrder, doneOrder >>

\* lines 199-205: terminate the recorded instance, delete the recorded tunnel
DeployTeardown(d) ==
  /\ dep[d].pc = "teardown"
  /\ LET ex == dep[d].existing
         old == ex.present /\ ex.ec2_instance_id # NoId
     IN  /\ \E ok \in IF old THEN Outcomes ELSE {TRUE} :
              /\ Fault(ok)
              /\ hosts' = IF old
                          THEN terminate_instance(hosts, ex.ec2_instance_id, ok)
                          ELSE hosts
              /\ dep' = [dep EXCEPT
                           ![d].pc = "launch", ![d].existing = NoItem,
                           ![d].swallowed = IF ok THEN {} ELSE {"terminate_old"}]
         /\ tunnelCalls' = IF old /\ ex.tunnel_id # NoId
                           THEN tunnelCalls \cup {ex.tunnel_id}
                           ELSE tunnelCalls
  /\ UNCHANGED << table, builds, notifyVars, envVars, destroyVars, sweepVars,
                  reconcileVars, putOrder, doneOrder >>

\* the keyword arguments of the call at handler.py:209-217 and the
\* parameters of EC2Manager.launch_instance (ec2_manager.py:19)
LaunchCallKeywords == {"name", "tags", "instance_profile_arn"}
LaunchParameters == {"name", "tags"}

\* Python binds a call only when every keyword names a parameter
CallBinds(keywords, parameters) == keywords \subseteq parameters

\* lines 207-218 with the body of EC2Manager.launch_instance
\* (ec2_manager.py:21-45); binds says whether the call reaches the body
DeployLaunch(d, binds) ==
  /\ dep[d].pc = "launch"
  /\ \E ok \in IF binds THEN Outcomes ELSE {TRUE} :
       /\ Fault(ok)
       /\ IF binds /\ ok
          THEN /\ hosts' = launch_instance(hosts, NewInstanceId(d), dep[d].key)
               /\ dep' = [dep EXCEPT ![d].pc = "wait",
                                     ![d].instance_id = NewInstanceId(d)]
          ELSE /\ Raise(d, IF binds THEN "launch" ELSE "TypeError")
               /\ UNCHANGED hosts
  /\ UNCHANGED << table, builds, tunnelCalls, notifyVars, envVars, destroyVars,
                  sweepVars, reconcileVars, putOrder, doneOrder >>

\* lines 220-223 with EC2Manager.wait_for_instance (ec2_manager.py:47-80):
\* the two waiters raise when they give up; the agent loop only logs a
\* warning after its 120 s and returns
DeployWait(d) ==
  /\ dep[d].pc = "wait"
  /\ LET i == dep[d].instance_id IN
     IF hosts[i].state \notin {"pending", "running"}
     THEN /\ Raise(d, "wait")
          /\ UNCHANGED << hosts, nFaults >>
     ELSE \E out \in {"ready"} \cup
                      IF nFaults < MaxFaults
                      THEN {"agent_timeout", "waiter_timeout"} ELSE {} :
            /\ Fault(out = "ready")
            /\ IF out = "waiter_timeout"
               THEN /\ Raise(d, "wait")
                    /\ UNCHANGED hosts
               ELSE /\ hosts' = [hosts EXCEPT ![i].state = "running",
                                              ![i].agent = (out = "ready")]
                    /\ dep' = [dep EXCEPT ![d].pc = "ssm",
                                          ![d].agent_timeout = (out # "ready")]
  /\ UNCHANGED << table, builds, tunnelCalls, notifyVars, envVars, destroyVars,
                  sweepVars, reconcileVars, putOrder, doneOrder >>

\* lines 225-235 with SSMCommands.run_start_environment / run_command /
\* _wait_for_command (ssm_commands.py:16-100, 183): send_command is retried
\* while the agent is not registered, then the command's status is polled
DeployStartEnv(d) ==
  /\ dep[d].pc = "ssm"
  /\ LET i == dep[d].instance_id IN
     IF hosts[i].state # "running"
     THEN /\ Raise(d, "ssm")
          /\ UNCHANGED << hosts, nFaults >>
     ELSE \E registered \in {TRUE, hosts[i].agent} :
          \E status \in {"Success"} \cup
                         IF nFaults < MaxFaults THEN {"Failed"} ELSE {} :
          \E out \in IF status = "Success" /\ nFaults < MaxFaults
                     THEN Stdouts(d) ELSE {GoodStdout(d)} :
            /\ Fault(registered /\ status = "Success" /\ out = GoodStdout(d))
            /\ hosts' = [hosts EXCEPT ![i].agent = registered]
            /\ IF ~registered \/ status = "Failed"
               THEN Raise(d, "ssm")
               ELSE dep' = [dep EXCEPT ![d].pc = "parse", ![d].stdout = out]
  /\ UNCHANGED << table, builds, tunnelCalls, notifyVars, envVars, destroyVars,
                  sweepVars, reconcileVars, putOrder, doneOrder >>

\* The same two phases, one step per iteration of their loops.  attempt
\* and elapsed are the loop counter and the seconds slept so far; every
\* call of a collaborator returns or raises, with any answer.

\* ec2_manager.py:51-56: waiter instance_running, MaxAttempts = timeout // 5;
\* a terminated or stopping instance fails the waiter at once
WaitRunning(d) ==
  /\ dep[d].pc = "wait"
  /\ LET i == dep[d].instance_id IN
     IF hosts[i].state \notin {"pending", "running"}
        \/ dep[d].attempt >= WAIT_TIMEOUT \div RUNNING_DELAY
     THEN /\ Raise(d, "wait")
          /\ UNCHANGED hosts
     ELSE \E up \in BOOLEAN :
            IF up
            THEN /\ hosts' = [hosts EXCEPT ![i].state = "running"]
                 /\ dep' = [dep EXCEPT ![d].pc = "wait_status",
                                       ![d].attempt = 0]
            ELSE /\ dep' = [dep EXCEPT ![d].attempt = @ + 1]
                 /\ UNCHANGED hosts
  /\ UNCHANGED << table, builds, tunnelCalls, notifyVars, envVars, nFaults,
                  destroyVars, sweepVars, reconcileVars, putOrder, doneOrder >>

\* ec2_manager.py:58-63: waiter instance_status_ok, MaxAttempts = timeout // 10
WaitStatusOk(d) ==
  /\ dep[d].pc = "wait_status"
  /\ IF dep[d].attempt >= WAIT_TIMEOUT \div STATUS_DELAY
     THEN Raise(d, "wait")
     ELSE \E ok \in BOOLEAN :
            dep' = IF ok
                   THEN [dep EXCEPT ![d].pc = "wait_agent", ![d].attempt = 0,
                                    ![d].elapsed = 0]
                   ELSE [dep EXCEPT ![d].attempt = @ + 1]
  /\ UNCHANGED << table, builds, hosts, tunnelCalls, notifyVars, envVars,
                  nFaults, destroyVars, sweepVars, reconcileVars, putOrder,
                  doneOrder >>

\* ec2_manager.py:65-80: the agent loop; when its 120 s are over it logs a
\* warning and wait_for_instance returns
WaitAgent(d) ==
  /\ dep[d].pc = "wait_agent"
  /\ LET i == dep[d].instance_id IN
     IF dep[d].elapsed >= AGENT_TIMEOUT
     THEN /\ dep' = [dep EXCEPT ![d].pc = "ssm", ![d].attempt = 0,
                                ![d].elapsed = 0, ![d].agent_timeout = TRUE]
          /\ UNCHANGED hosts
     ELSE \E registered \in BOOLEAN :
            IF registered
            THEN /\ hosts' = [hosts EXCEPT ![i].agent = TRUE]
                 /\ dep' = [dep EXCEPT ![d].pc = "ssm", ![d].attempt = 0,
                                       ![d].elapsed = 0]
            ELSE /\ dep' = [dep EXCEPT ![d].elapsed = @ + AGENT_SLEEP]
                 /\ UNCHANGED hosts
  /\ UNCHANGED << table, builds, tunnelCalls, notifyVars, envVars, nFaults,
                  destroyVars, sweepVars, reconcileVars, putOrder, doneOrder >>

\* ssm_commands.py:54: attempt < max_retries - 1
may_retry(attempt) == attempt < MAX_RETRIES - 1

\* ssm_commands.py:37-59: send_command, retried after InvalidInstanceId
\* while attempts are left; any other exception leaves run_command
SendCommand(d) ==
  /\ dep[d].pc = "ssm"
  /\ LET i == dep[d].instance_id IN
     \E answer \in {"sent", "InvalidInstanceId", "error"} :
       /\ answer = "sent" => hosts[i].state = "running"
       /\ hosts' = [hosts EXCEPT ![i].agent = @ \/ (answer = "sent")]
       /\ IF answer = "sent"
          THEN dep' = [dep EXCEPT ![d].pc = "poll", ![d].elapsed = 0]
          ELSE IF answer = "InvalidInstanceId" /\ may_retry(dep[d].attempt)
          THEN dep' = [dep EXCEPT ![d].attempt = @ + 1]
          ELSE Raise(d, "ssm")
  /\ UNCHANGED << table, builds, tunnelCalls, notifyVars, envVars, nFaults,
                  destroyVars, sweepVars, reconcileVars, putOrder, doneOrder >>

\* a variant of the poll's clock that starts over before the timeout
slept_around(elapsed) == (elapsed + POLL_SLEEP) % START_TIMEOUT

\* ssm_commands.py:91, 94, 98: time.sleep(1) in every branch that polls again
slept(elapsed) == elapsed + POLL_SLEEP

\* ssm_commands.py:68-100: get_command_invocation until the command has
\* ended or timeout seconds have passed
PollCommand(d) ==
  /\ dep[d].pc = "poll"
  /\ IF dep[d].elapsed >= START_TIMEOUT
     THEN Raise(d, "ssm")
     ELSE \E status \in {"Success", "Failed", "InProgress"} :
          \E out \in IF status = "Success" THEN Stdouts(d)
                     ELSE {GoodStdout(d)} :
            IF status = "Success"
            THEN dep' = [dep EXCEPT ![d].pc = "parse", ![d].stdout = out,
                                    ![d].attempt = 0, ![d].elapsed = 0]
            ELSE IF status = "Failed"
            THEN Raise(d, "ssm")
            ELSE dep' = [dep EXCEPT ![d].elapsed = slept(@)]
  /\ UNCHANGED << table, builds, hosts, tunnelCalls, notifyVars, envVars,
                  nFaults, destroyVars, sweepVars, reconcileVars, putOrder,
                  doneOrder >>

\* variant of DeployParseUrl that goes on without a URL when the output
\* has none
DeployParseUrlLenient(d) ==
  /\ dep[d].pc = "parse"
  /\ dep' = [dep EXCEPT
               ![d].pc = "persist",
               ![d].tunnel_url = IF url_match(dep[d].stdout) # 0
                                 THEN MatchedUrl(dep[d].stdout) ELSE NoUrl,
               ![d].tunnel_id = IF url_match(dep[d].stdout) # 0
                                THEN TunnelIdOf(MatchedUrl(dep[d].stdout))
                                ELSE NoId,
               ![d].stdout = << >>]
  /\ UNCHANGED << table, builds, hosts, tunnelCalls, notifyVars, envVars,
                  nFaults, destroyVars, sweepVars, reconcileVars, putOrder,
                  doneOrder >>

\* lines 237-250: the URL is searched in stdout; no match raises
DeployParseUrl(d) ==
  /\ dep[d].pc = "parse"
  /\ IF url_match(dep[d].stdout) # 0
     THEN dep' = [dep EXCEPT
                    ![d].pc = "persist",
                    ![d].tunnel_url = MatchedUrl(dep[d].stdout),
                    ![d].tunnel_id = TunnelIdOf(MatchedUrl(dep[d].stdout)),
                    ![d].stdout = << >>]
     ELSE Raise(d, "no_url")
  /\ UNCHANGED << table, builds, hosts, tunnelCalls, notifyVars, envVars,
                  nFaults, destroyVars, sweepVars, reconcileVars, putOrder,
                  doneOrder >>

\* variant of DeployPersist whose put_item is conditioned on the key having
\* no running item: a later writer leaves the earlier item in place
DeployPersistIfAbsent(d) ==
  /\ dep[d].pc = "persist"
  /\ UNCHANGED nFaults
  /\ table' = IF table[dep[d].key].status = "running"
              THEN table
              ELSE [table EXCEPT ![dep[d].key] =
                      RunningItem(dep[d].branch, dep[d].sha,
                                  dep[d].instance_id, dep[d].tunnel_id,
                                  dep[d].tunnel_url, clock)]
  /\ putOrder' = Append(putOrder, d)
  /\ dep' = [dep EXCEPT ![d].pc = "build"]
  /\ UNCHANGED << builds, hosts, tunnelCalls, notifyVars, envVars, destroyVars,
                  sweepVars, reconcileVars, doneOrder >>

\* variant of DeployPersist that runs as soon as the command has returned,
\* before its output is searched for the URL
DeployPersistUnparsed(d) ==
  /\ dep[d].pc = "parse"
  /\ UNCHANGED nFaults
  /\ table' = [table EXCEPT ![dep[d].key] =
                 RunningItem(dep[d].branch, dep[d].sha, dep[d].instance_id,
                             dep[d].tunnel_id, dep[d].tunnel_url, clock)]
  /\ putOrder' = Append(putOrder, d)
  /\ dep' = [dep EXCEPT ![d].pc = "build"]
  /\ UNCHANGED << builds, hosts, tunnelCalls, notifyVars, envVars, destroyVars,
                  sweepVars, reconcileVars, doneOrder >>

\* lines 252-267: environments_table.put_item
DeployPersist(d) ==
  /\ dep[d].pc = "persist"
  /\ \E ok \in Outcomes :
       /\ Fault(ok)
       /\ IF ok
          THEN /\ table' = [table EXCEPT ![dep[d].key] =
                              RunningItem(dep[d].branch, dep[d].sha,
                                          dep[d].instance_id, dep[d].tunnel_id,
                                          dep[d].tunnel_url, clock)]
               /\ putOrder' = Append(putOrder, d)
               /\ dep' = [dep EXCEPT ![d].pc = "build"]
          ELSE /\ Raise(d, "put_item")
               /\ UNCHANGED << table, putOrder >>
  /\ UNCHANGED << builds, hosts, tunnelCalls, notifyVars, envVars, destroyVars,
                  sweepVars, reconcileVars, doneOrder >>

\* build_id = f"build-{sha[:8]}-{int(time.time())}" (line 163)
\* by is history: the execution that wrote the item
BuildItem(key, sha, t, status, now, by) ==
  [ environment_id |-> key, build_id |-> << sha, t >>, sha |-> sha,
    status |-> status, created_at |-> now, by |-> by ]

\* builds_table.put_item: an item with the same key is replaced
put_build(bs, item) ==
  { b \in bs : ~(b.environment_id = item.environment_id
                 /\ b.build_id = item.build_id) } \cup {item}

\* lines 269-275
DeployBuild(d) ==
  /\ dep[d].pc = "build"
  /\ \E ok \in Outcomes :
       /\ Fault(ok)
       /\ IF ok
          THEN /\ builds' = put_build(builds,
                               BuildItem(dep[d].key, dep[d].sha,
                                         dep[d].build_t, "success", clock, d))
               /\ dep' = [dep EXCEPT ![d].pc = "success_status"]
          ELSE /\ Raise(d, "put_build")
               /\ UNCHANGED builds
  /\ UNCHANGED << table, hosts, tunnelCalls, notifyVars, envVars, destroyVars,
                  sweepVars, reconcileVars, putOrder, doneOrder >>

\* lines 277-283: commit.create_status('success'), inside the try
DeployNotifySuccess(d) ==
  /\ dep[d].pc = "success_status"
  /\ \E ok \in Outcomes :
       /\ Fault(ok)
       /\ IF ok
          THEN /\ ghStatus' = [ghStatus EXCEPT ![dep[d].sha] = "success"]
               /\ dep' = [dep EXCEPT ![d].pc = "comment"]
          ELSE /\ Raise(d, "success_status")
               /\ UNCHANGED ghStatus
  /\ UNCHANGED << table, builds, hosts, tunnelCalls, comments, envVars,
                  destroyVars, sweepVars, reconcileVars, putOrder, doneOrder >>

\* lines 294-311: get_pull and create_issue_comment, inside the try
DeployComment(d) ==
  /\ dep[d].pc = "comment"
  /\ \E ok \in Outcomes :
       /\ Fault(ok)
       /\ IF ok
          THEN /\ comments' = comments \cup {d}
               /\ dep' = [dep EXCEPT ![d].pc = "done", ![d].result = "ok"]
               /\ doneOrder' = Append(doneOrder, d)
          ELSE /\ Raise(d, "comment")
               /\ UNCHANGED << comments, doneOrder >>
  /\ UNCHANGED << table, builds, hosts, tunnelCalls, ghStatus, envVars,
                  destroyVars, sweepVars, reconcileVars, putOrder >>

\* lines 313-324: create_status('failure') under try/except-pass; with
\* commit unbound the NameError is swallowed as well
DeployFailStatus(d) ==
  /\ dep[d].pc = "fail_status"
  /\ \E ok \in IF dep[d].commit THEN Outcomes ELSE {TRUE} :
       /\ Fault(ok)
       /\ ghStatus' = IF ok /\ dep[d].commit
                      THEN [ghStatus EXCEPT ![dep[d].sha] = "failure"]
                      ELSE ghStatus
       /\ dep' = [dep EXCEPT
                    ![d].pc = "fail_update",
                    ![d].swallowed =
                       IF ok /\ dep[d].commit THEN dep[d].swallowed
                       ELSE dep[d].swallowed \cup {"failure_status"}]
  /\ UNCHANGED << table, builds, hosts, tunnelCalls, comments, envVars,
                  destroyVars, sweepVars, reconcileVars, putOrder, doneOrder >>

\* lines 326-338: update_item to failed, then the exception is re-raised
DeployFailUpdate(d) ==
  /\ dep[d].pc = "fail_update"
  /\ \E ok \in Outcomes :
       /\ Fault(ok)
       /\ table' = IF ok
                   THEN [table EXCEPT ![dep[d].key] =
                           update_failed(table[dep[d].key], dep[d].err, clock)]
                   ELSE table
       /\ dep' = [dep EXCEPT
                    ![d].pc = "done", ![d].result = "raised",
                    ![d].swallowed = IF ok THEN dep[d].swallowed
                                     ELSE dep[d].swallowed \cup {"update_item"}]
  /\ doneOrder' = Append(doneOrder, d)
  /\ UNCHANGED << builds, hosts, tunnelCalls, notifyVars, envVars, destroyVars,
                  sweepVars, reconcileVars, putOrder >>

(***************************************************************************)
(* handle_destroy (deployer/handler.py:341-379).                           *)
(***************************************************************************)
DestroyIdle ==
  [ pc |-> "idle", key |-> NoStr, existing |-> NoItem, result |-> NoStr,
    swallowed |-> {}, calls |-> {} ]

\* variant of DestroyStart without the early return for a missing item
DestroyStartWithoutReturn(k) ==
  /\ des.pc \in {"idle", "done"}
  /\ nDestroys < MaxDestroys
  /\ nDestroys' = nDestroys + 1
  /\ \E ok \in Outcomes :
       /\ Fault(ok)
       /\ des' = IF ~ok
                 THEN [DestroyIdle EXCEPT !.pc = "done", !.key = k,
                                          !.result = "raised"]
                 ELSE [DestroyIdle EXCEPT !.pc = "terminate", !.key = k,
                                          !.existing = table[k]]
  /\ UNCHANGED << table, builds, hosts, tunnelCalls, notifyVars, envVars,
                  deployVars, sweepVars, reconcileVars >>

\* lines 343-353: get_item; no item: log and return
DestroyStart(k) ==
  /\ des.pc \in {"idle", "done"}
  /\ nDestroys < MaxDestroys
  /\ nDestroys' = nDestroys + 1
  /\ \E ok \in Outcomes :
       /\ Fault(ok)
       /\ des' = IF ~ok
                 THEN [DestroyIdle EXCEPT !.pc = "done", !.key = k,
                                          !.result = "raised"]
                 ELSE IF ~table[k].present
                 THEN [DestroyIdle EXCEPT !.pc = "done", !.key = k,
                                          !.result = "ok"]
                 ELSE [DestroyIdle EXCEPT !.pc = "terminate", !.key = k,
                                          !.existing = table[k]]
  /\ UNCHANGED << table, builds, hosts, tunnelCalls, notifyVars, envVars,
                  deployVars, sweepVars, reconcileVars >>

\* lines 358-362: terminate the recorded instance; no tunnel call is made
DestroyTerminate ==
  /\ des.pc = "terminate"
  /\ LET i == des.existing.ec2_instance_id IN
     \E ok \in IF i # NoId THEN Outcomes ELSE {TRUE} :
       /\ Fault(ok)
       /\ hosts' = IF i # NoId THEN terminate_instance(hosts, i, ok) ELSE hosts
       /\ des' = [des EXCEPT
                    !.pc = "update",
                    !.calls = IF i # NoId THEN {<< "terminate", i >>} ELSE {},
                    !.swallowed = IF ok THEN {} ELSE {"terminate"}]
  /\ UNCHANGED << table, builds, tunnelCalls, notifyVars, envVars, deployVars,
                  nDestroys, sweepVars, reconcileVars >>

\* lines 364-379: update_item to destroyed; an exception is re-raised
DestroyUpdate ==
  /\ des.pc = "update"
  /\ \E ok \in Outcomes :
       /\ Fault(ok)
       /\ table' = IF ok
                   THEN [table EXCEPT ![des.key] =
                           update_status(table[des.key], "destroyed", clock)]
                   ELSE table
       /\ des' = [des EXCEPT !.pc = "done",
                             !.result = IF ok THEN "ok" ELSE "raised"]
  /\ UNCHANGED << builds, hosts, tunnelCalls, notifyVars, envVars, deployVars,
                  nDestroys, sweepVars, reconcileVars >>

(***************************************************************************)
(* Cleanup sweeper (cleanup/handler.py), one sweep per s.                  *)
(***************************************************************************)
Sweepers == 1..MaxSweeps

NoEnv == [pk |-> NoStr, item |-> NoItem]

NoStats == [stopped |-> 0, terminated |-> 0, errors |-> 0]

\* stale and fresh are history: whether the sweep wrote a status from an
\* environment read before the item was replaced by a later put_item, and
\* whether it wrote one from an environment that was still current;
\* failures is history: the calls that raised while an environment of
\* either loop was processed
SweepIdle ==
  [ pc |-> "idle", now |-> NoTime, queue |-> {}, env |-> NoEnv,
    stats |-> NoStats, stale |-> FALSE, fresh |-> FALSE, failures |-> 0 ]

\* the environment the sweep holds was read before the item was replaced
IsStale(e, t) == e.item.ec2_instance_id # t[e.pk].ec2_instance_id

\* table.query on the status index
query_status(t, status) ==
  { [pk |-> k, item |-> t[k]] : k \in { j \in Keys : t[j].status = status } }

\* lines 48-69: thresholds from now, then the query for running
\* environments; a failing query leaves an empty list
SweepStart(s) ==
  /\ swp[s].pc = "idle"
  /\ \A r \in Sweepers : r < s => swp[r].pc # "idle"
  /\ \E ok \in Outcomes :
       /\ Fault(ok)
       /\ swp' = [swp EXCEPT ![s] =
                    [ SweepIdle EXCEPT
                        !.pc = "stop_loop", !.now = clock,
                        !.queue = IF ok THEN query_status(table, "running")
                                  ELSE {} ]]
  /\ UNCHANGED << table, builds, hosts, tunnelCalls, notifyVars, envVars,
                  deployVars, destroyVars, reconcileVars >>

\* a threshold one hour later than the code's, so that an environment
\* idle for exactly the period is already past it
auto_stop_threshold_late(now) == now - AUTO_STOP_HOURS + 1

\* line 49: now - timedelta(hours=AUTO_STOP_HOURS)
auto_stop_threshold(now) == now - AUTO_STOP_HOURS

\* a threshold one hour later than the code's
terminate_threshold_late(now) == now - TERMINATE_HOURS + 1

\* a threshold that every stopped environment is older than
terminate_threshold_ahead(now) == now + 1

\* line 50: now - timedelta(hours=24)
terminate_threshold(now) == now - TERMINATE_HOURS

\* env.get('last_activity', env.get('created_at'))
last_activity_of(item) ==
  IF item.last_activity # NoTime THEN item.last_activity ELSE item.created_at

\* env.get('updated_at', env.get('created_at'))
updated_at_of(item) ==
  IF item.updated_at # NoTime THEN item.updated_at ELSE item.created_at

\* variant of SweepStopHost in which the exception of stop_instances is
\* not caught in stop_environment: it reaches the except of the loop, which
\* counts it, and the record is not updated
SweepStopHostUncaught(s, e) ==
  /\ swp[s].pc = "stop_loop"
  /\ e \in swp[s].queue
  /\ LET i == e.item.ec2_instance_id
         la == last_activity_of(e.item)
         rest == swp[s].queue \ {e}
     IN  IF i = NoId
         THEN /\ swp' = [swp EXCEPT ![s].queue = rest,
                                    ![s].stats.errors = @ + 1]
              /\ UNCHANGED << hosts, nFaults >>
         ELSE IF la # NoTime /\ la < swp[s].now - AUTO_STOP_HOURS
         THEN \E ok \in Outcomes :
                /\ Fault(ok)
                /\ hosts' = stop_instances(hosts, i, ok)
                /\ swp' = IF ok /\ hosts[i].state = "running"
                          THEN [swp EXCEPT ![s].queue = rest, ![s].env = e,
                                           ![s].pc = "stop_update"]
                          ELSE [swp EXCEPT ![s].queue = rest,
                                           ![s].failures = @ + 1,
                                           ![s].stats.errors = @ + 1]
         ELSE /\ swp' = [swp EXCEPT ![s].queue = rest]
              /\ UNCHANGED << hosts, nFaults >>
  /\ UNCHANGED << table, builds, tunnelCalls, notifyVars, envVars, deployVars,
                  destroyVars, reconcileVars >>

\* lines 72-91 up to the driver call of stop_environment (lines 127-137):
\* one environment of the list; stop_instances' exception is swallowed
SweepStopHost(s, e) ==
  /\ swp[s].pc = "stop_loop"
  /\ e \in swp[s].queue
  /\ LET i == e.item.ec2_instance_id
         la == last_activity_of(e.item)
         rest == swp[s].queue \ {e}
     IN  IF i = NoId
         THEN /\ swp' = [swp EXCEPT ![s].queue = rest]
              /\ UNCHANGED << hosts, nFaults >>
         ELSE IF la = NoTime
         THEN /\ swp' = [swp EXCEPT ![s].queue = rest,
                                    ![s].failures = @ + 1,
                                    ![s].stats.errors = @ + 1]
              /\ UNCHANGED << hosts, nFaults >>
         ELSE IF la < auto_stop_threshold(swp[s].now)
         THEN \E ok \in Outcomes :
                /\ Fault(ok)
                /\ hosts' = stop_instances(hosts, i, ok)
                /\ swp' = [swp EXCEPT ![s].queue = rest, ![s].env = e,
                                      ![s].failures = IF ok THEN @ ELSE @ + 1,
                                      ![s].pc = "stop_update"]
         ELSE /\ swp' = [swp EXCEPT ![s].queue = rest]
              /\ UNCHANGED << hosts, nFaults >>
  /\ UNCHANGED << table, builds, tunnelCalls, notifyVars, envVars, deployVars,
                  destroyVars, reconcileVars >>

\* stop_environment lines 139-148 and lambda_handler lines 87-91
SweepStopUpdate(s) ==
  /\ swp[s].pc = "stop_update"
  /\ LET k == swp[s].env.pk IN
     \E ok \in Outcomes :
       /\ Fault(ok)
       /\ table' = IF ok
                   THEN [table EXCEPT ![k] = update_status(table[k], "stopped",
                                                          clock)]
                   ELSE table
       /\ swp' = [swp EXCEPT
                    ![s].pc = "stop_loop", ![s].env = NoEnv,
                    ![s].failures = IF ok THEN @ ELSE @ + 1,
                    ![s].stale = @ \/ (ok /\ IsStale(swp[s].env, table)),
                    ![s].fresh = @ \/ (ok /\ ~IsStale(swp[s].env, table)),
                    ![s].stats.stopped = IF ok THEN @ + 1 ELSE @,
                    ![s].stats.errors = IF ok THEN @ ELSE @ + 1]
  /\ UNCHANGED << builds, hosts, tunnelCalls, notifyVars, envVars, deployVars,
                  destroyVars, reconcileVars >>

\* lines 93-104: the query for stopped environments, after the first loop
SweepQueryStopped(s) ==
  /\ swp[s].pc = "stop_loop"
  /\ swp[s].queue = {}
  /\ \E ok \in Outcomes :
       /\ Fault(ok)
       /\ swp' = [swp EXCEPT
                    ![s].pc = "term_loop",
                    ![s].queue = IF ok THEN query_status(table, "stopped")
                                 ELSE {} ]
  /\ UNCHANGED << table, builds, hosts, tunnelCalls, notifyVars, envVars,
                  deployVars, destroyVars, reconcileVars >>

\* lines 107-121 up to the driver calls of terminate_environment
\* (lines 151-171): both exceptions are swallowed
SweepTermHost(s, e) ==
  /\ swp[s].pc = "term_loop"
  /\ e \in swp[s].queue
  /\ LET i == e.item.ec2_instance_id
         ua == updated_at_of(e.item)
         rest == swp[s].queue \ {e}
     IN  IF ua = NoTime
         THEN /\ swp' = [swp EXCEPT ![s].queue = rest,
                                    ![s].failures = @ + 1,
                                    ![s].stats.errors = @ + 1]
              /\ UNCHANGED << hosts, tunnelCalls, nFaults >>
         ELSE IF ua < terminate_threshold(swp[s].now)
         THEN \E ok \in IF i # NoId THEN Outcomes ELSE {TRUE} :
                /\ Fault(ok)
                /\ hosts' = IF i # NoId
                            THEN terminate_instances(hosts, i, ok)
                            ELSE hosts
                /\ tunnelCalls' = IF e.item.tunnel_id # NoId
                                  THEN tunnelCalls \cup {e.item.tunnel_id}
                                  ELSE tunnelCalls
                /\ swp' = [swp EXCEPT ![s].queue = rest, ![s].env = e,
                                      ![s].failures = IF ok THEN @ ELSE @ + 1,
                                      ![s].pc = "term_update"]
         ELSE /\ swp' = [swp EXCEPT ![s].queue = rest]
              /\ UNCHANGED << hosts, tunnelCalls, nFaults >>
  /\ UNCHANGED << table, builds, notifyVars, envVars, deployVars, destroyVars,
                  reconcileVars >>

\* terminate_environment lines 173-182 and lambda_handler lines 116-121
SweepTermUpdate(s) ==
  /\ swp[s].pc = "term_update"
  /\ LET k == swp[s].env.pk IN
     \E ok \in Outcomes :
       /\ Fault(ok)
       /\ table' = IF ok
                   THEN [table EXCEPT ![k] = update_status(table[k],
                                                          "terminated", clock)]
                   ELSE table
       /\ swp' = [swp EXCEPT
                    ![s].pc = "term_loop", ![s].env = NoEnv,
                    ![s].failures = IF ok THEN @ ELSE @ + 1,
                    ![s].stale = @ \/ (ok /\ IsStale(swp[s].env, table)),
                    ![s].fresh = @ \/ (ok /\ ~IsStale(swp[s].env, table)),
                    ![s].stats.terminated = IF ok THEN @ + 1 ELSE @,
                    ![s].stats.errors = IF ok THEN @ ELSE @ + 1]
  /\ UNCHANGED << builds, hosts, tunnelCalls, notifyVars, envVars, deployVars,
                  destroyVars, reconcileVars >>

\* lines 123-124: the summary is returned
SweepFinish(s) ==
  /\ swp[s].pc = "term_loop"
  /\ swp[s].queue = {}
  /\ swp' = [swp EXCEPT ![s].pc = "done"]
  /\ UNCHANGED << table, builds, hosts, tunnelCalls, notifyVars, envVars,
                  nFaults, deployVars, destroyVars, reconcileVars >>

(***************************************************************************)
(* Drift reconciler (reconciler/handler.py, PRReconcilerService).          *)
(***************************************************************************)
NoRecStats ==
  [ orphaned_ec2_terminated |-> 0, stale_dynamo_fixed |-> 0,
    prs_checked |-> 0, errors |-> 0 ]

\* EC2Instance (lines 40-45); pr_number None and 0 are both false for the
\* test of line 111; key is f"{repository}#{pr_number}" of line 223
NoInstance ==
  [ instance_id |-> NoId, repository |-> "", pr_number |-> NoId,
    key |-> NoStr, state |-> "none" ]

ReconcileIdle ==
  [ pc |-> "idle", instances |-> {}, envs |-> {}, instance |-> NoInstance,
    pk |-> NoStr, stats |-> NoRecStats, result |-> NoStr ]

\* _get_ephemeral_ec2_instances (lines 172-195): the tagged instances in
\* state running, stopped or pending
described_instances(h) ==
  { j \in DOMAIN h : h[j].state \in {"running", "stopped", "pending"} }

\* line 191: int(pr_number_str) if pr_number_str else None, for every
\* instance of the answer; one ValueError leaves the function
tags_parse(h) ==
  \A i \in described_instances(h) :
    h[i].tags.PRNumber = << >> \/ ParsesAsInt(h[i].tags.PRNumber)

pr_number_of(tags) ==
  IF tags.PRNumber = << >> THEN NoId ELSE int_of(tags.PRNumber)

ephemeral_ec2_instances(h) ==
  { [ instance_id |-> i, repository |-> h[i].tags.Repository,
      pr_number |-> pr_number_of(h[i].tags),
      key |-> pk_of(h[i].tags.Repository, pr_number_of(h[i].tags)),
      state |-> h[i].state ] : i \in described_instances(h) }

\* variant of instance_exists that finds no instance at all
instance_exists_never(h, i) == FALSE

\* variant of instance_exists that does not look at the instance state
instance_exists_in_any_state(h, i) == i \in DOMAIN h /\ h[i].state # "none"

\* _instance_exists (lines 203-215)
instance_exists(h, i) ==
  /\ i \in DOMAIN h
  /\ h[i].state \notin {"none", "terminated", "shutting-down"}

\* reconcile lines 95-98 and _reconcile_orphaned_ec2 line 107: the
\* enumeration is outside every try, its exception (of describe_instances
\* or of int()) leaves reconcile()
ReconcileStart ==
  /\ rec.pc \in {"idle", "done"}
  /\ nReconciles < MaxReconciles
  /\ nReconciles' = nReconciles + 1
  /\ \E ok \in Outcomes :
       /\ Fault(ok)
       /\ rec' = IF ok /\ tags_parse(hosts)
                 THEN [ReconcileIdle EXCEPT
                         !.pc = "orphan_loop",
                         !.instances = ephemeral_ec2_instances(hosts)]
                 ELSE [ReconcileIdle EXCEPT !.pc = "done", !.result = "raised"]
  /\ UNCHANGED << table, builds, hosts, tunnelCalls, notifyVars, envVars,
                  deployVars, destroyVars, sweepVars >>

\* the same start of reconcile(), for the runs of a schedule that does not
\* end: the runs are not counted
ReconcileScheduled ==
  /\ rec.pc \in {"idle", "done"}
  /\ \E ok \in Outcomes :
       /\ Fault(ok)
       /\ rec' = IF ok /\ tags_parse(hosts)
                 THEN [ReconcileIdle EXCEPT
                         !.pc = "orphan_loop",
                         !.instances = ephemeral_ec2_instances(hosts)]
                 ELSE [ReconcileIdle EXCEPT !.pc = "done", !.result = "raised"]
  /\ UNCHANGED << table, builds, hosts, tunnelCalls, notifyVars, envVars,
                  deployVars, destroyVars, sweepVars, nReconciles >>

\* lines 110-134 with _check_pr_status (197-201) and the driver call of
\* _terminate_orphaned_instance (line 219)
ReconcileOrphan(inst) ==
  /\ rec.pc = "orphan_loop"
  /\ inst \in rec.instances
  /\ LET rest == rec.instances \ {inst}
         pr == prState[inst.key]
     IN  IF inst.repository = "" \/ inst.pr_number = NoId
         THEN \* line 111-113: missing tags, skipped
              /\ rec' = [rec EXCEPT !.instances = rest]
              /\ UNCHANGED << hosts, nFaults >>
         ELSE
         \E check_ok \in Outcomes :
           IF ~check_ok \/ pr = "notfound"
           THEN \* GithubException, or any other exception of the check
                /\ Fault(check_ok)
                /\ rec' = [rec EXCEPT !.instances = rest,
                                      !.stats.errors = @ + 1]
                /\ UNCHANGED hosts
           ELSE IF pr = "open"
           THEN /\ rec' = [rec EXCEPT !.instances = rest,
                                      !.stats.prs_checked = @ + 1]
                /\ UNCHANGED << hosts, nFaults >>
           ELSE \E ok \in Outcomes :
                  /\ Fault(ok)
                  /\ hosts' = terminate_instances(hosts, inst.instance_id, ok)
                  /\ rec' = IF ok
                            THEN [rec EXCEPT !.instances = rest,
                                             !.stats.prs_checked = @ + 1,
                                             !.instance = inst,
                                             !.pk = inst.key,
                                             !.pc = "orphan_update"]
                            ELSE [rec EXCEPT !.instances = rest,
                                             !.stats.prs_checked = @ + 1,
                                             !.stats.errors = @ + 1]
  /\ UNCHANGED << table, builds, tunnelCalls, notifyVars, envVars, deployVars,
                  destroyVars, sweepVars, nReconciles >>

\* _terminate_orphaned_instance lines 222-224 with _update_environment_status
ReconcileOrphanUpdate ==
  /\ rec.pc = "orphan_update"
  /\ \E ok \in Outcomes :
       /\ Fault(ok)
       /\ table' = IF ok
                   THEN [table EXCEPT ![rec.pk] =
                           update_status(table[rec.pk], "terminated", clock)]
                   ELSE table
       /\ rec' = [rec EXCEPT
                    !.pc = "orphan_loop", !.instance = NoInstance,
                    !.pk = NoStr,
                    !.stats.orphaned_ec2_terminated = IF ok THEN @ + 1 ELSE @,
                    !.stats.errors = IF ok THEN @ ELSE @ + 1]
  /\ UNCHANGED << builds, hosts, tunnelCalls, notifyVars, envVars, deployVars,
                  destroyVars, sweepVars, nReconciles >>

\* _reconcile_stale_dynamo lines 138-150: a failing query ends the pass
ReconcileQueryRunning ==
  /\ rec.pc = "orphan_loop"
  /\ rec.instances = {}
  /\ \E ok \in Outcomes :
       /\ Fault(ok)
       /\ rec' = IF ok
                 THEN [rec EXCEPT !.pc = "stale_loop",
                                  !.envs = query_status(table, "running")]
                 ELSE [rec EXCEPT !.pc = "done", !.result = "ok",
                                  !.stats.errors = @ + 1]
  /\ UNCHANGED << table, builds, hosts, tunnelCalls, notifyVars, envVars,
                  deployVars, destroyVars, sweepVars, nReconciles >>

\* lines 154-170 up to _instance_exists
ReconcileStale(e) ==
  /\ rec.pc = "stale_loop"
  /\ e \in rec.envs
  /\ LET rest == rec.envs \ {e}
         i == e.item.ec2_instance_id
     IN  IF i = NoId
         THEN /\ rec' = [rec EXCEPT !.envs = rest]
              /\ UNCHANGED nFaults
         ELSE \E ok \in Outcomes :
                /\ Fault(ok)
                /\ rec' = IF ~ok
                          THEN [rec EXCEPT !.envs = rest,
                                           !.stats.errors = @ + 1]
                          ELSE IF instance_exists(hosts, i)
                          THEN [rec EXCEPT !.envs = rest]
                          ELSE [rec EXCEPT !.envs = rest, !.pk = e.pk,
                                           !.pc = "stale_update"]
  /\ UNCHANGED << table, builds, hosts, tunnelCalls, notifyVars, envVars,
                  deployVars, destroyVars, sweepVars, nReconciles >>

\* variant of ReconcileStaleUpdate that writes stopped
ReconcileStaleUpdateToStopped ==
  /\ rec.pc = "stale_update"
  /\ UNCHANGED nFaults
  /\ table' = [table EXCEPT ![rec.pk] =
                 update_status(table[rec.pk], "stopped", clock)]
  /\ rec' = [rec EXCEPT !.pc = "stale_loop", !.pk = NoStr,
                        !.stats.stale_dynamo_fixed = @ + 1]
  /\ UNCHANGED << builds, hosts, tunnelCalls, notifyVars, envVars, deployVars,
                  destroyVars, sweepVars, nReconciles >>

\* _fix_stale_dynamo_record (lines 226-228) and lines 165-170
ReconcileStaleUpdate ==
  /\ rec.pc = "stale_update"
  /\ \E ok \in Outcomes :
       /\ Fault(ok)
       /\ table' = IF ok
                   THEN [table EXCEPT ![rec.pk] =
                           update_status(table[rec.pk], "terminated", clock)]
                   ELSE table
       /\ rec' = [rec EXCEPT
                    !.pc = "stale_loop", !.pk = NoStr,
                    !.stats.stale_dynamo_fixed = IF ok THEN @ + 1 ELSE @,
                    !.stats.errors = IF ok THEN @ ELSE @ + 1]
  /\ UNCHANGED << builds, hosts, tunnelCalls, notifyVars, envVars, deployVars,
                  destroyVars, sweepVars, nReconciles >>

\* reconcile line 103: the stats are returned
ReconcileFinish ==
  /\ rec.pc = "stale_loop"
  /\ rec.envs = {}
  /\ rec' = [rec EXCEPT !.pc = "done", !.result = "ok"]
  /\ UNCHANGED << table, builds, hosts, tunnelCalls, notifyVars, envVars,
                  nFaults, deployVars, destroyVars, sweepVars, nReconciles >>

(***************************************************************************)
(* Environment: the wall clock and the pull request.                       *)
(***************************************************************************)
\* no unit of work is in flight
NoneInFlight ==
  /\ \A d \in Deployers : dep[d].pc \in {"idle", "done"}
  /\ \A s \in Sweepers : swp[s].pc \in {"idle", "done"}
  /\ des.pc \in {"idle", "done"}
  /\ rec.pc \in {"idle", "done"}

\* The clock counts hours and advances by more than a threshold at once.
\* Every wait of a unit of work is bounded by minutes (ec2_manager.py:47-68,
\* ssm_commands.py:20 and 183), so such an advance falls between units.
Tick(n) ==
  /\ ticks < MaxTicks
  /\ NoneInFlight
  /\ ticks' = ticks + 1
  /\ clock' = clock + n
  /\ UNCHANGED << table, builds, hosts, tunnelCalls, notifyVars, prState,
                  nFaults, deployVars, destroyVars, sweepVars, reconcileVars >>

\* the tags of a live instance are edited outside the controller
Retag(i, tags) ==
  /\ IsLive(hosts, i)
  /\ hosts[i].tags = TagsOf(hosts[i].key)
  /\ hosts' = [hosts EXCEPT ![i].tags = tags]
  /\ UNCHANGED << table, builds, tunnelCalls, notifyVars, envVars, nFaults,
                  deployVars, destroyVars, sweepVars, reconcileVars >>

ClosePR(k) ==
  /\ prState[k] = "open"
  /\ \E st \in {"closed", "notfound"} : prState' = [prState EXCEPT ![k] = st]
  /\ UNCHANGED << table, builds, hosts, tunnelCalls, notifyVars, clock, ticks,
                  nFaults, deployVars, destroyVars, sweepVars, reconcileVars >>

(***************************************************************************)
(* Specifications.                                                         *)
(***************************************************************************)
Init ==
  /\ table = [k \in Keys |-> NoItem]
  /\ builds = {}
  /\ hosts = [i \in Deployers |-> NoHost]
  /\ tunnelCalls = {}
  /\ ghStatus = [sh \in Shas |-> NoStr]
  /\ comments = {}
  /\ prState = [k \in Keys |-> "open"]
  /\ clock = 0
  /\ ticks = 0
  /\ nFaults = 0
  /\ dep = [d \in Deployers |-> DeployIdle]
  /\ des = DestroyIdle
  /\ nDestroys = 0
  /\ swp = [s \in Sweepers |-> SweepIdle]
  /\ rec = ReconcileIdle
  /\ nReconciles = 0
  /\ putOrder = << >>
  /\ doneOrder = << >>

\* no handle_deploy execution is in flight
DeploysFinished == \A d \in Deployers : dep[d].pc \in {"idle", "done"}

\* no other handle_deploy execution is in flight
Quiet(d) == \A e \in Deployers \ {d} : dep[e].pc \in {"idle", "done"}

\* one step of a handle_deploy execution; overlap says whether an
\* execution may start while another one is in flight
DeployStep(binds, overlap) ==
  \/ \E d \in Deployers, m \in Intents :
       (overlap \/ Quiet(d)) /\ DeployStart(d, m)
  \/ \E d \in Deployers : DeployNotifyPending(d)
  \/ \E d \in Deployers : DeployTeardown(d)
  \/ \E d \in Deployers : DeployLaunch(d, binds)
  \/ \E d \in Deployers : DeployWait(d)
  \/ \E d \in Deployers : DeployStartEnv(d)
  \/ \E d \in Deployers : DeployParseUrl(d)
  \/ \E d \in Deployers : DeployPersist(d)
  \/ \E d \in Deployers : DeployBuild(d)
  \/ \E d \in Deployers : DeployNotifySuccess(d)
  \/ \E d \in Deployers : DeployComment(d)
  \/ \E d \in Deployers : DeployFailStatus(d)
  \/ \E d \in Deployers : DeployFailUpdate(d)

DestroyStep ==
  \/ \E k \in Keys : DestroyStart(k)
  \/ DestroyTerminate
  \/ DestroyUpdate

\* one step of a sweep of S
SweepStep(S) ==
  \/ \E s \in S : SweepStart(s)
  \/ \E s \in S : \E e \in swp[s].queue : SweepStopHost(s, e)
  \/ \E s \in S : SweepStopUpdate(s)
  \/ \E s \in S : SweepQueryStopped(s)
  \/ \E s \in S : \E e \in swp[s].queue : SweepTermHost(s, e)
  \/ \E s \in S : SweepTermUpdate(s)
  \/ \E s \in S : SweepFinish(s)

ReconcileStep ==
  \/ ReconcileStart
  \/ \E inst \in rec.instances : ReconcileOrphan(inst)
  \/ ReconcileOrphanUpdate
  \/ ReconcileQueryRunning
  \/ \E e \in rec.envs : ReconcileStale(e)
  \/ ReconcileStaleUpdate
  \/ ReconcileFinish

\* The lifecycle controller: deploy and destroy intents.  The launch call
\* is taken to reach the body of launch_instance.
Next == DeployStep(TRUE, TRUE) \/ DestroyStep
Spec == Init /\ [][Next]_vars

\* The controller with the cleanup sweeper and the wall clock; deploy
\* intents are delivered one after another.
NextSweep ==
  \/ DeployStep(TRUE, FALSE)
  \/ SweepStep(1..(MaxSweeps \div 2))
  \/ \E n \in TickSteps : Tick(n)
SpecSweep == Init /\ [][NextSweep]_vars

\* The controller with the drift reconciler and the pull request; deploy
\* intents are delivered one after another.
NextReconcile ==
  DeployStep(TRUE, FALSE) \/ ReconcileStep \/ \E k \in Keys : ClosePR(k)
SpecReconcile == Init /\ [][NextReconcile]_vars

\* The controller with the launch call bound as Python binds it: the
\* keyword instance_profile_arn names no parameter of launch_instance, the
\* call raises TypeError, and the steps of handle_deploy after it are not
\* reached.
NextAsCalled ==
  \/ \E d \in Deployers, m \in Intents : DeployStart(d, m)
  \/ \E d \in Deployers : DeployNotifyPending(d)
  \/ \E d \in Deployers : DeployTeardown(d)
  \/ \E d \in Deployers :
       DeployLaunch(d, CallBinds(LaunchCallKeywords, LaunchParameters))
  \/ \E d \in Deployers : DeployFailStatus(d)
  \/ \E d \in Deployers : DeployFailUpdate(d)
  \/ DestroyStep
SpecAsCalled == Init /\ [][NextAsCalled]_vars

\* One deployment, Destroy and the sweeper, with collaborators that never
\* fail (the except branch of handle_deploy is not reached).  Units of work
\* run one after another, except that two sweeps may overlap.
InitNoFaults ==
  /\ table = [k \in Keys |-> NoItem]
  /\ builds = {}
  /\ hosts = [i \in Deployers |-> NoHost]
  /\ tunnelCalls = {}
  /\ ghStatus = [sh \in Shas |-> NoStr]
  /\ comments = {}
  /\ prState = [k \in Keys |-> "open"]
  /\ clock = 0
  /\ ticks = 0
  /\ nFaults = MaxFaults
  /\ dep = [d \in Deployers |-> DeployIdle]
  /\ des = DestroyIdle
  /\ nDestroys = 0
  /\ swp = [s \in Sweepers |-> SweepIdle]
  /\ rec = ReconcileIdle
  /\ nReconciles = 0
  /\ putOrder = << >>
  /\ doneOrder = << >>

SweepsInFlight == { s \in Sweepers : swp[s].pc \notin {"idle", "done"} }

NextNoFaults ==
  \/ \E d \in Deployers, m \in Intents :
       /\ \A e \in Deployers : dep[e].pc = "idle"
       /\ NoneInFlight
       /\ DeployStart(d, m)
  \/ \E d \in Deployers : DeployNotifyPending(d)
  \/ \E d \in Deployers : DeployTeardown(d)
  \/ \E d \in Deployers : DeployLaunch(d, TRUE)
  \/ \E d \in Deployers : DeployWait(d)
  \/ \E d \in Deployers : DeployStartEnv(d)
  \/ \E d \in Deployers : DeployParseUrl(d)
  \/ \E d \in Deployers : DeployPersist(d)
  \/ \E d \in Deployers : DeployBuild(d)
  \/ \E d \in Deployers : DeployNotifySuccess(d)
  \/ \E d \in Deployers : DeployComment(d)
  \/ \E k \in Keys : NoneInFlight /\ DestroyStart(k)
  \/ DestroyTerminate
  \/ DestroyUpdate
  \/ \E s \in Sweepers :
       /\ DeploysFinished
       /\ des.pc \in {"idle", "done"}
       /\ Cardinality(SweepsInFlight) <= 1
       /\ SweepStart(s)
  \/ \E s \in Sweepers : \E e \in swp[s].queue : SweepStopHost(s, e)
  \/ \E s \in Sweepers : SweepStopUpdate(s)
  \/ \E s \in Sweepers : SweepQueryStopped(s)
  \/ \E s \in Sweepers : \E e \in swp[s].queue : SweepTermHost(s, e)
  \/ \E s \in Sweepers : SweepTermUpdate(s)
  \/ \E s \in Sweepers : SweepFinish(s)
  \/ \E n \in TickSteps : Tick(n)
SpecNoFaults == InitNoFaults /\ [][NextNoFaults]_vars


\* The controller and the drift reconciler, one unit of work after
\* another: a unit starts, and the pull request changes state, only while
\* no unit is in flight.
NextReconcileAlone ==
  \/ \E d \in Deployers, m \in Intents : NoneInFlight /\ DeployStart(d, m)
  \/ \E d \in Deployers : DeployNotifyPending(d)
  \/ \E d \in Deployers : DeployTeardown(d)
  \/ \E d \in Deployers : DeployLaunch(d, TRUE)
  \/ \E d \in Deployers : DeployWait(d)
  \/ \E d \in Deployers : DeployStartEnv(d)
  \/ \E d \in Deployers : DeployParseUrl(d)
  \/ \E d \in Deployers : DeployPersist(d)
  \/ \E d \in Deployers : DeployBuild(d)
  \/ \E d \in Deployers : DeployNotifySuccess(d)
  \/ \E d \in Deployers : DeployComment(d)
  \/ \E d \in Deployers : DeployFailStatus(d)
  \/ \E d \in Deployers : DeployFailUpdate(d)
  \/ \E k \in Keys : NoneInFlight /\ DestroyStart(k)
  \/ DestroyTerminate
  \/ DestroyUpdate
  \/ NoneInFlight /\ ReconcileStart
  \/ \E inst \in rec.instances : ReconcileOrphan(inst)
  \/ ReconcileOrphanUpdate
  \/ ReconcileQueryRunning
  \/ \E e \in rec.envs : ReconcileStale(e)
  \/ ReconcileStaleUpdate
  \/ ReconcileFinish
  \/ \E k \in Keys : NoneInFlight /\ ClosePR(k)
SpecReconcileAlone == Init /\ [][NextReconcileAlone]_vars

\* The same, with instances whose tags are edited while no unit is in
\* flight.
NextReconcileTags ==
  \/ NextReconcileAlone
  \/ \E i \in Deployers, tags \in ForeignTags : NoneInFlight /\ Retag(i, tags)
SpecReconcileTags == Init /\ [][NextReconcileTags]_vars

\* The controller and the cleanup sweeper, one unit of work after another;
\* the clock also advances by exactly a threshold.
NextSweepAlone ==
  \/ \E d \in Deployers, m \in Intents : NoneInFlight /\ DeployStart(d, m)
  \/ \E d \in Deployers : DeployNotifyPending(d)
  \/ \E d \in Deployers : DeployTeardown(d)
  \/ \E d \in Deployers : DeployLaunch(d, TRUE)
  \/ \E d \in Deployers : DeployWait(d)
  \/ \E d \in Deployers : DeployStartEnv(d)
  \/ \E d \in Deployers : DeployParseUrl(d)
  \/ \E d \in Deployers : DeployPersist(d)
  \/ \E d \in Deployers : DeployBuild(d)
  \/ \E d \in Deployers : DeployNotifySuccess(d)
  \/ \E d \in Deployers : DeployComment(d)
  \/ \E d \in Deployers : DeployFailStatus(d)
  \/ \E d \in Deployers : DeployFailUpdate(d)
  \/ \E s \in 1..(MaxSweeps \div 2) : NoneInFlight /\ SweepStart(s)
  \/ \E s \in Sweepers : \E e \in swp[s].queue : SweepStopHost(s, e)
  \/ \E s \in Sweepers : SweepStopUpdate(s)
  \/ \E s \in Sweepers : SweepQueryStopped(s)
  \/ \E s \in Sweepers : \E e \in swp[s].queue : SweepTermHost(s, e)
  \/ \E s \in Sweepers : SweepTermUpdate(s)
  \/ \E s \in Sweepers : SweepFinish(s)
  \/ \E n \in TickSteps \cup {AUTO_STOP_HOURS, TERMINATE_HOURS} : Tick(n)
SpecSweepAlone == Init /\ [][NextSweepAlone]_vars

\* Every writer of the registry: Deploy, Destroy, the sweeper and the
\* reconciler, one unit of work after another.  The first Deploy is for
\* one commit and the second for the other, and the clock advances past
\* both thresholds at once; the pull request is closed, not deleted.
NextWriters ==
  \/ \E d \in Deployers, m \in Intents :
       /\ NoneInFlight
       /\ (m.branch = "feat-x") <=> (d = 1)
       /\ DeployStart(d, m)
  \/ \E d \in Deployers : DeployNotifyPending(d)
  \/ \E d \in Deployers : DeployTeardown(d)
  \/ \E d \in Deployers : DeployLaunch(d, TRUE)
  \/ \E d \in Deployers : DeployWait(d)
  \/ \E d \in Deployers : DeployStartEnv(d)
  \/ \E d \in Deployers : DeployParseUrl(d)
  \/ \E d \in Deployers : DeployPersist(d)
  \/ \E d \in Deployers : DeployBuild(d)
  \/ \E d \in Deployers : DeployNotifySuccess(d)
  \/ \E d \in Deployers : DeployComment(d)
  \/ \E d \in Deployers : DeployFailStatus(d)
  \/ \E d \in Deployers : DeployFailUpdate(d)
  \/ \E k \in Keys : NoneInFlight /\ DestroyStart(k)
  \/ DestroyTerminate
  \/ DestroyUpdate
  \/ \E s \in 1..(MaxSweeps \div 2) : NoneInFlight /\ SweepStart(s)
  \/ \E s \in Sweepers : \E e \in swp[s].queue : SweepStopHost(s, e)
  \/ \E s \in Sweepers : SweepStopUpdate(s)
  \/ \E s \in Sweepers : SweepQueryStopped(s)
  \/ \E s \in Sweepers : \E e \in swp[s].queue : SweepTermHost(s, e)
  \/ \E s \in Sweepers : SweepTermUpdate(s)
  \/ \E s \in Sweepers : SweepFinish(s)
  \/ NoneInFlight /\ ReconcileStart
  \/ \E inst \in rec.instances : ReconcileOrphan(inst)
  \/ ReconcileOrphanUpdate
  \/ ReconcileQueryRunning
  \/ \E e \in rec.envs : ReconcileStale(e)
  \/ ReconcileStaleUpdate
  \/ ReconcileFinish
  \/ Tick(TERMINATE_HOURS + 1)
  \/ \E k \in Keys : NoneInFlight /\ ClosePR(k) /\ prState'[k] = "closed"
SpecWriters == Init /\ [][NextWriters]_vars

\* One handle_deploy execution with the loops of its waits; the process
\* that runs it keeps taking its steps.
NextWaits ==
  \/ \E d \in Deployers, m \in Intents :
       /\ \A e \in Deployers : dep[e].pc = "idle"
       /\ DeployStart(d, m)
  \/ \E d \in Deployers : DeployNotifyPending(d)
  \/ \E d \in Deployers : DeployTeardown(d)
  \/ \E d \in Deployers : DeployLaunch(d, TRUE)
  \/ \E d \in Deployers : WaitRunning(d)
  \/ \E d \in Deployers : WaitStatusOk(d)
  \/ \E d \in Deployers : WaitAgent(d)
  \/ \E d \in Deployers : SendCommand(d)
  \/ \E d \in Deployers : PollCommand(d)
  \/ \E d \in Deployers : DeployParseUrl(d)
  \/ \E d \in Deployers : DeployPersist(d)
  \/ \E d \in Deployers : DeployBuild(d)
  \/ \E d \in Deployers : DeployNotifySuccess(d)
  \/ \E d \in Deployers : DeployComment(d)
  \/ \E d \in Deployers : DeployFailStatus(d)
  \/ \E d \in Deployers : DeployFailUpdate(d)
SpecWaits == Init /\ [][NextWaits]_vars /\ WF_vars(NextWaits)

\* The sweeper over a registry it did not write: the record of the key is
\* any running record, with or without an ec2_instance_id, and the host
\* it names is running, already stopped, terminated or gone.
SeedRecords ==
  { RunningItem("feat-x", "abc12345", i, 1, MatchedUrl(GoodStdout(1)), 0) :
      i \in {NoId, 1} }

SeedHosts ==
  { [i \in Deployers |->
       IF i = 1 /\ st # "none"
       THEN [state |-> st, key |-> "org/app#42", agent |-> TRUE,
             tags |-> TagsOf("org/app#42")]
       ELSE NoHost] : st \in {"none", "running", "stopped", "terminated"} }

InitSweepRecords ==
  /\ table \in [Keys -> SeedRecords]
  /\ builds = {}
  /\ hosts \in SeedHosts
  /\ tunnelCalls = {}
  /\ ghStatus = [sh \in Shas |-> NoStr]
  /\ comments = {}
  /\ prState = [k \in Keys |-> "open"]
  /\ clock = 0
  /\ ticks = 0
  /\ nFaults = 0
  /\ dep = [d \in Deployers |-> DeployIdle]
  /\ des = DestroyIdle
  /\ nDestroys = 0
  /\ swp = [s \in Sweepers |-> SweepIdle]
  /\ rec = ReconcileIdle
  /\ nReconciles = 0
  /\ putOrder = << >>
  /\ doneOrder = << >>

NextSweepRecords ==
  \/ \E s \in 1..(MaxSweeps \div 2) : NoneInFlight /\ SweepStart(s)
  \/ \E s \in Sweepers : \E e \in swp[s].queue : SweepStopHost(s, e)
  \/ \E s \in Sweepers : SweepStopUpdate(s)
  \/ \E s \in Sweepers : SweepQueryStopped(s)
  \/ \E s \in Sweepers : \E e \in swp[s].queue : SweepTermHost(s, e)
  \/ \E s \in Sweepers : SweepTermUpdate(s)
  \/ \E s \in Sweepers : SweepFinish(s)
  \/ \E n \in TickSteps : Tick(n)
SpecSweepRecords == InitSweepRecords /\ [][NextSweepRecords]_vars

\* The controller beside a reconciler that runs on its schedule for ever.
\* A Deploy starts only while the pull request of its key is open, the
\* pull request is closed and stays closed, and Destroy may run at any
\* time.  Every unit of work in flight keeps taking its steps, and the
\* schedule keeps starting passes.
DeployProgress ==
  \/ \E d \in Deployers : DeployNotifyPending(d)
  \/ \E d \in Deployers : DeployTeardown(d)
  \/ \E d \in Deployers : DeployLaunch(d, TRUE)
  \/ \E d \in Deployers : DeployWait(d)
  \/ \E d \in Deployers : DeployStartEnv(d)
  \/ \E d \in Deployers : DeployParseUrl(d)
  \/ \E d \in Deployers : DeployPersist(d)
  \/ \E d \in Deployers : DeployBuild(d)
  \/ \E d \in Deployers : DeployNotifySuccess(d)
  \/ \E d \in Deployers : DeployComment(d)
  \/ \E d \in Deployers : DeployFailStatus(d)
  \/ \E d \in Deployers : DeployFailUpdate(d)

DestroyProgress == DestroyTerminate \/ DestroyUpdate

ReconcileProgress ==
  \/ ReconcileScheduled
  \/ \E inst \in rec.instances : ReconcileOrphan(inst)
  \/ ReconcileOrphanUpdate
  \/ ReconcileQueryRunning
  \/ \E e \in rec.envs : ReconcileStale(e)
  \/ ReconcileStaleUpdate
  \/ ReconcileFinish

NextConverge ==
  \/ \E d \in Deployers, m \in Intents :
       /\ \A e \in Deployers : dep[e].pc = "idle"
       /\ m.branch = "feat-x"
       /\ prState[m.key] = "open"
       /\ DeployStart(d, m)
  \/ DeployProgress
  \/ \E k \in Keys : DestroyStart(k)
  \/ DestroyProgress
  \/ ReconcileProgress
  \/ \E k \in Keys : ClosePR(k) /\ prState'[k] = "closed"
SpecConverge ==
  /\ Init
  /\ [][NextConverge]_vars
  /\ WF_vars(DeployProgress)
  /\ WF_vars(DestroyProgress)
  /\ WF_vars(ReconcileProgress)

(***************************************************************************)
(* Properties.                                                             *)
(***************************************************************************)
\* the hosts launched for key k that are pending, running or stopped
LiveHostsOf(k) == { i \in Deployers : hosts[i].key = k /\ IsLive(hosts, i) }

Last(seq) == seq[Len(seq)]

\* C1: once every Deploy execution for a key has finished (overlapping and
\* failing executions included), exactly one host launched for the key is
\* live, it is the host launched by the Deploy that completed last, and the
\* record's ec2_instance_id and sha refer to it.  Stated for the behaviours
\* where no collaborator failed, no Destroy ran and the Deploy that
\* completed last returned normally.
C1_OneLiveHostOfLastDeploy ==
  ( /\ DeploysFinished
    /\ nFaults = 0
    /\ nDestroys = 0
    /\ doneOrder # << >>
    /\ dep[Last(doneOrder)].result = "ok" )
  => LET d == Last(doneOrder)
         k == dep[d].key
     IN  /\ LiveHostsOf(k) = {dep[d].instance_id}
         /\ table[k].ec2_instance_id = dep[d].instance_id
         /\ table[k].sha = dep[d].sha


\* C2: when two Deploy executions for the same key overlap and both
\* succeed, the record holds the branch, sha, ec2_instance_id and
\* tunnel_url of the execution whose put_item ran last.
C2_LastPutWins ==
  ( /\ DeploysFinished
    /\ nDestroys = 0
    /\ \A d \in Deployers : dep[d].result = "ok" )
  => LET w == Last(putOrder)
         k == dep[w].key
     IN  /\ table[k].present
         /\ table[k].branch = dep[w].branch
         /\ table[k].sha = dep[w].sha
         /\ table[k].ec2_instance_id = dep[w].instance_id
         /\ table[k].tunnel_url = dep[w].tunnel_url

\* two executions with different commits overlapped: the one that started
\* second wrote first, and both returned normally
C2_Witness ==
  /\ DeploysFinished
  /\ nDestroys = 0
  /\ \A d \in Deployers : dep[d].result = "ok"
  /\ putOrder[1] > putOrder[2]
  /\ dep[putOrder[1]].sha # dep[putOrder[2]].sha
  /\ table[dep[putOrder[2]].key].sha = dep[putOrder[2]].sha

\* C3: a sweeper Stop issued from a record read before a redeploy does not
\* prevail over the redeploy: once both have finished the record is
\* running with the redeploy's sha and ec2_instance_id, and that host is
\* the only live one.  Stated for the behaviours where no collaborator
\* failed and every status the sweeps wrote came from such a stale read.
C3_DeployWinsOverStaleStop ==
  ( /\ DeploysFinished
    /\ \A s \in Sweepers : swp[s].pc \in {"idle", "done"}
    /\ nFaults = 0
    /\ putOrder # << >>
    /\ doneOrder # << >>
    /\ Last(doneOrder) = Last(putOrder)
    /\ dep[Last(putOrder)].result = "ok"
    /\ \E s \in Sweepers : swp[s].stale
    /\ \A s \in Sweepers : ~swp[s].fresh )
  => LET d == Last(putOrder)
         k == dep[d].key
     IN  /\ table[k].status = "running"
         /\ table[k].sha = dep[d].sha
         /\ table[k].ec2_instance_id = dep[d].instance_id
         /\ LiveHostsOf(k) = {dep[d].instance_id}

\* C4: a Deploy whose phases up to the build record all succeeded leaves
\* the record running, with its success build item, when only the success
\* status or the pull-request comment failed.  Stated for a Deploy that ran
\* alone.
C4_NotificationNeverMasks ==
  \A d \in Deployers :
    ( /\ dep[d].pc = "done"
      /\ dep[d].err \in {"success_status", "comment"}
      /\ \A e \in Deployers \ {d} : dep[e].pc = "idle"
      /\ nDestroys = 0 )
    => /\ table[dep[d].key].status = "running"
       /\ \E b \in builds : b.by = d /\ b.status = "success"

\* C5: on a key with no record, a Deploy during which no collaborator
\* fails leaves the record running, referring to a live host launched for
\* the key, with a URL matching the tunnel pattern, and exactly one
\* success build item.
C5_FreshDeployRuns ==
  \A d \in Deployers :
    ( /\ dep[d].pc = "done"
      /\ nFaults = 0
      /\ nDestroys = 0
      /\ \A e \in Deployers \ {d} : dep[e].pc = "idle" )
    => LET k == dep[d].key
       IN  /\ table[k].status = "running"
           /\ dep[d].instance_id # NoId
           /\ table[k].ec2_instance_id = dep[d].instance_id
           /\ LiveHostsOf(k) = {dep[d].instance_id}
           /\ table[k].tunnel_url.scheme = "https"
           /\ table[k].tunnel_url.label # NoId
           /\ table[k].tunnel_url.domain = "trycloudflare.com"
           /\ Cardinality({ b \in builds : b.environment_id = k
                                           /\ b.status = "success" }) = 1

\* the exceptions of the launch, readiness, command and URL phases
PhaseErrors == {"launch", "wait", "ssm", "no_url"}

\* execution d returns from the except branch after a phase failed
FailedPhaseReturns(d) ==
  /\ dep[d].pc = "fail_update"
  /\ dep'[d].pc = "done"
  /\ dep[d].err \in PhaseErrors

\* C6 as stated: when the launch, the readiness wait, the command or the
\* URL parse fails, the Deploy returns with the record failed and carrying
\* an error message, no success build item of its own, and the commit
\* status at failure.
C6_FailedPhaseMarksFailed ==
  [][ \A d \in Deployers :
        FailedPhaseReturns(d)
        => /\ table'[dep[d].key].status = "failed"
           /\ table'[dep[d].key].error_message # NoStr
           /\ ~ \E b \in builds' : b.by = d /\ b.status = "success"
           /\ ghStatus'[dep[d].sha] = "failure" ]_vars

\* C6 amended: the Deploy returns with no success build item of its own;
\* the record is failed with an error message unless the update_item of the
\* except branch itself raised, and the commit status is failure unless
\* that create_status call itself raised.
C6_FailedPhaseMarksFailedUnlessHandlerFails ==
  [][ \A d \in Deployers :
        FailedPhaseReturns(d)
        => /\ ~ \E b \in builds' : b.by = d /\ b.status = "success"
           /\ "update_item" \notin dep'[d].swallowed
                => /\ table'[dep[d].key].status = "failed"
                   /\ table'[dep[d].key].error_message # NoStr
           /\ "failure_status" \notin dep'[d].swallowed
                => ghStatus'[dep[d].sha] = "failure" ]_vars

\* a phase failed and the except branch did all of its work
C6_Witness ==
  \E d \in Deployers :
    /\ dep[d].pc = "done"
    /\ dep[d].err \in PhaseErrors
    /\ dep[d].swallowed = {}
    /\ table[dep[d].key].status = "failed"
    /\ table[dep[d].key].error_message = dep[d].err
    /\ ghStatus[dep[d].sha] = "failure"

\* C7: when the host never registers with the agent within the wait, the
\* Deploy fails: the start command is not run to completion and the
\* execution does not return normally.
C7_AgentTimeoutFailsDeploy ==
  \A d \in Deployers :
    dep[d].agent_timeout
    => /\ dep[d].pc \notin {"parse", "persist", "build", "success_status",
                            "comment"}
       /\ dep[d].pc = "done" => dep[d].result = "raised"

\* C8: a Destroy of a key with no record, whose get_item answers, returns
\* normally at once: it writes no record and calls neither the compute
\* driver nor the tunnel broker.
C8_DestroyOfNothing ==
  [][ ( /\ nDestroys' = nDestroys + 1
        /\ nFaults' = nFaults
        /\ ~table[des'.key].present )
      => /\ des'.pc = "done"
         /\ des'.result = "ok"
         /\ des'.calls = {}
         /\ table' = table
         /\ hosts' = hosts
         /\ tunnelCalls' = tunnelCalls ]_vars

\* a Destroy found no record and returned; there is still none
C8_Witness ==
  /\ des.pc = "done"
  /\ des.result = "ok"
  /\ ~des.existing.present
  /\ des.calls = {}
  /\ ~table[des.key].present

\* handle_destroy returns normally from its update_item
DestroyReturns ==
  /\ des.pc = "update"
  /\ des'.pc = "done"
  /\ des'.result = "ok"

Applied(e, st) ==
  /\ table[e.pk].status = st
  /\ table[e.pk].ec2_instance_id = e.item.ec2_instance_id

\* the step leaves the record of k as it was, updated_at aside
SameRecord(k) ==
  table'[k] = [table[k] EXCEPT !.updated_at = table'[k].updated_at]

\* C10: Stop, Terminate and Destroy are idempotent: applied to a record the
\* same operation was just applied to, each step of the second call leaves
\* the hosts and the record (updated_at aside) as they were and raises no
\* error.  Stated for collaborators that do not fail.
C10_Idempotent ==
  [][ /\ \A s \in Sweepers :
           /\ ( /\ swp[s].pc = "stop_loop"
                /\ swp'[s].pc = "stop_update"
                /\ Applied(swp'[s].env, "stopped") )
              => hosts' = hosts
           /\ ( /\ swp[s].pc = "stop_update"
                /\ swp'[s].pc = "stop_loop"
                /\ Applied(swp[s].env, "stopped") )
              => /\ SameRecord(swp[s].env.pk)
                 /\ swp'[s].stats.errors = swp[s].stats.errors
           /\ ( /\ swp[s].pc = "term_loop"
                /\ swp'[s].pc = "term_update"
                /\ Applied(swp'[s].env, "terminated") )
              => hosts' = hosts /\ tunnelCalls' = tunnelCalls
           /\ ( /\ swp[s].pc = "term_update"
                /\ swp'[s].pc = "term_loop"
                /\ Applied(swp[s].env, "terminated") )
              => /\ SameRecord(swp[s].env.pk)
                 /\ swp'[s].stats.errors = swp[s].stats.errors
      /\ ( /\ des.pc = "terminate"
           /\ des'.pc = "update"
           /\ des.existing.status = "destroyed" )
         => hosts' = hosts /\ tunnelCalls' = tunnelCalls
      /\ ( /\ des.pc = "update"
           /\ des'.pc = "done"
           /\ des.existing.status = "destroyed"
           /\ table[des.key].status = "destroyed" )
         => SameRecord(des.key) /\ des'.result = "ok" ]_vars

\* two sweeps stopped the same record, two later sweeps terminated it, and
\* a Destroy of the record followed a Destroy of it
C10_Witness ==
  /\ Cardinality({ s \in Sweepers : swp[s].stats.stopped = 1 }) = 2
  /\ Cardinality({ s \in Sweepers : swp[s].stats.terminated = 1 }) = 2
  /\ nDestroys = 2
  /\ des.pc = "done"
  /\ des.result = "ok"
  /\ des.existing.status = "destroyed"
  /\ table[des.key].status = "destroyed"


ReconcileReturns ==
  /\ rec.pc # "done"
  /\ rec'.pc = "done"
  /\ rec'.result = "ok"

\* C12: at the end of a reconciler pass that ran alone, every live host
\* carrying the environment tags belongs to a pull request that is open.
\* Stated for collaborators that do not fail.
C12_NoOrphanAfterPass ==
  [][ (ReconcileReturns /\ nFaults' = 0)
      => \A i \in Deployers :
           IsLive(hosts', i) => prState'[hosts'[i].key] = "open" ]_vars

\* C13: in the orphan pass, a host whose pull request is reported as not
\* found is handled like one whose pull request is closed: the host is
\* terminated, the update of the record follows, and no error is counted.
\* Stated for collaborators that do not fail.
C13_NotFoundIsTreatedAsClosed ==
  [][ \A inst \in rec.instances :
        ( /\ rec.pc = "orphan_loop"
          /\ inst \notin rec'.instances
          /\ prState[inst.key] = "notfound"
          /\ nFaults' = 0 )
        => /\ ~IsLive(hosts', inst.instance_id)
           /\ rec'.pc = "orphan_update"
           /\ rec'.pk = inst.key
           /\ rec'.stats.errors = rec.stats.errors ]_vars

\* C14: at the end of a reconciler pass that ran alone and counted no
\* error, no record is running while its ec2_instance_id names a host that
\* does not exist or is terminated or shutting down.
C14_NoStaleRunningAfterPass ==
  [][ (ReconcileReturns /\ rec'.stats.errors = 0)
      => \A k \in Keys :
           (table'[k].status = "running" /\ table'[k].ec2_instance_id # NoId)
           => hosts'[table'[k].ec2_instance_id].state
                \notin {"none", "terminated", "shutting-down"} ]_vars

\* a pass found a running record whose host was gone and fixed it
C14_Witness ==
  /\ rec.pc = "done"
  /\ rec.result = "ok"
  /\ rec.stats.errors = 0
  /\ rec.stats.stale_dynamo_fixed = 1
  /\ \E k \in Keys : /\ table[k].status = "terminated"
                     /\ table[k].ec2_instance_id # NoId
                     /\ hosts[table[k].ec2_instance_id].state = "terminated"

\* the reconciler writes its update_item in this step
ReconcilerWrites ==
  /\ rec.pc \in {"orphan_update", "stale_update"}
  /\ table' # table

\* C15: a reconciler pass running beside a Deploy of the same key never
\* sets to terminated the record of a key whose pull request is open and
\* whose recorded host is live.  Stated for collaborators that do not fail.
C15_ReconcileBesideDeployIsSafe ==
  [][ (ReconcilerWrites /\ nFaults' = 0)
      => ~ ( /\ prState[rec.pk] = "open"
             /\ table[rec.pk].ec2_instance_id # NoId
             /\ IsLive(hosts, table[rec.pk].ec2_instance_id)
             /\ table'[rec.pk].status = "terminated" ) ]_vars

\* C16: no reconciler step launches or revives a host, and every record a
\* reconciler step changes ends at status terminated.
C16_ReconcilerOnlyTerminates ==
  [][ rec' # rec
      => /\ \A i \in Deployers :
              hosts'[i].state \in {hosts[i].state, "terminated"}
         /\ \A k \in Keys :
              table'[k] # table[k] => table'[k].status = "terminated" ]_vars

\* a pass terminated the host of a closed pull request and wrote its record
C16_Witness ==
  /\ rec.pc = "done"
  /\ rec.stats.orphaned_ec2_terminated >= 1
  /\ \E k \in Keys : /\ table[k].status = "terminated"
                     /\ prState[k] = "closed"
                     /\ table[k].ec2_instance_id # NoId
                     /\ hosts[table[k].ec2_instance_id].state = "terminated"

\* C17: a sweep's idle-stop pass, run with no failure, stops every running
\* environment that has a host and whose last activity is strictly older
\* than the idle threshold, and leaves every other running environment
\* running.  When the pass ends no running environment with a host is
\* older than the threshold, and every write of the pass is for an
\* environment that was running, had a host and was older than it.
C17_StopPassStopsExactlyTheIdle ==
  [][\A s \in Sweepers :
       /\ (swp[s].pc = "stop_loop" /\ swp'[s].pc = "term_loop"
            /\ nFaults' = 0)
          => \A k \in Keys :
               (table'[k].status = "running"
                /\ table'[k].ec2_instance_id # NoId)
               => table'[k].last_activity >= swp[s].now - AUTO_STOP_HOURS
       /\ (swp[s].pc = "stop_update" /\ swp'[s].pc = "stop_loop"
            /\ nFaults' = 0)
          => LET e == swp[s].env IN
               /\ e.item.status = "running"
               /\ e.item.ec2_instance_id # NoId
               /\ e.item.last_activity < swp[s].now - AUTO_STOP_HOURS
               /\ table'[e.pk].status = "stopped"
               /\ swp'[s].stats.stopped = swp[s].stats.stopped + 1]_vars

\* one sweep found the environment idle for exactly the period and left it
\* running, a later one found it older and stopped it
C17_Witness ==
  /\ nFaults = 0
  /\ \E k \in Keys, r, s \in Sweepers :
       /\ swp[r].pc = "done" /\ swp[r].stats.stopped = 0
       /\ swp[r].now - AUTO_STOP_HOURS = table[k].last_activity
       /\ swp[s].pc = "done" /\ swp[s].stats.stopped = 1
       /\ table[k].status = "stopped"
       /\ table[k].ec2_instance_id # NoId
       /\ hosts[table[k].ec2_instance_id].state = "stopped"

\* C18: a sweep's terminate pass, run with no failure, terminates every
\* stopped environment whose last update is older than the retention
\* threshold: its host is terminated if it has one, its tunnel deleted if
\* it has one, and its record becomes terminated; a stopped environment
\* that is not older than the threshold is left as it is.
C18_TerminatePassTerminatesExactlyTheOld ==
  [][\A s \in Sweepers :
       /\ (swp[s].pc = "term_loop" /\ swp'[s].pc = "done" /\ nFaults' = 0)
          => \A k \in Keys :
               table'[k].status = "stopped"
               => table'[k].updated_at >= swp[s].now - TERMINATE_HOURS
       /\ (swp[s].pc = "term_loop" /\ nFaults' = 0
            /\ (hosts' # hosts \/ tunnelCalls' # tunnelCalls))
          => swp'[s].pc = "term_update"
       /\ (swp[s].pc = "term_update" /\ swp'[s].pc = "term_loop"
            /\ nFaults' = 0)
          => LET e == swp[s].env IN
               /\ e.item.status = "stopped"
               /\ e.item.updated_at < swp[s].now - TERMINATE_HOURS
               /\ e.item.ec2_instance_id # NoId
                  => hosts'[e.item.ec2_instance_id].state = "terminated"
               /\ e.item.tunnel_id # NoId
                  => e.item.tunnel_id \in tunnelCalls'
               /\ table'[e.pk].status = "terminated"
               /\ swp'[s].stats.terminated = swp[s].stats.terminated + 1]_vars

\* a sweep terminated an environment that had a host and a tunnel
C18_Witness ==
  /\ nFaults = 0
  /\ \E k \in Keys, s \in Sweepers :
       /\ swp[s].pc = "done" /\ swp[s].stats.terminated = 1
       /\ table[k].status = "terminated"
       /\ table[k].ec2_instance_id # NoId
       /\ hosts[table[k].ec2_instance_id].state = "terminated"
       /\ table[k].tunnel_id # NoId
       /\ table[k].tunnel_id \in tunnelCalls

\* C19: a sweep always returns its summary, and every failure met while
\* an environment of either loop was processed (a timestamp that does not
\* parse, a driver call that raised, a registry write that raised) is
\* counted in the summary's errors.
C19_EveryFailureIsCounted ==
  \A s \in Sweepers :
    swp[s].pc = "done" => swp[s].stats.errors = swp[s].failures

\* C20: reconcile() always returns its run summary: whatever fails while
\* the hosts are enumerated or while an instance of the orphan pass is
\* processed, the unit of work ends by returning its statistics.
C20_ReconcileAlwaysReturnsSummary ==
  rec.pc = "done" => rec.result = "ok"

\* C21: in the orphan pass an instance whose Repository or PRNumber tag is
\* missing, or names no key (a PRNumber that is not a number), is skipped:
\* when no call fails the pass starts over every
\* described instance, and the step that takes such an instance off the
\* list terminates no host, writes no record and goes on with the list.
C21_UnresolvableTagsAreSkipped ==
  [][ /\ (rec.pc \in {"idle", "done"} /\ rec' # rec /\ nFaults' = 0)
         => /\ rec'.pc = "orphan_loop"
            /\ { inst.instance_id : inst \in rec'.instances }
                 = { i \in Deployers : IsLive(hosts, i) }
      /\ \A inst \in rec.instances :
           ( /\ rec.pc = "orphan_loop"
             /\ inst \notin rec'.instances
             /\ hosts[inst.instance_id].tags \in ForeignTags )
           => /\ hosts' = hosts
              /\ table' = table
              /\ rec'.pc = "orphan_loop"
              /\ rec'.stats = rec.stats ]_vars

\* the host state that goes with each status a record can have once the
\* unit of work that wrote it has returned
HostStateOf(status) ==
  CASE status = "running" -> "running"
    [] status = "stopped" -> "stopped"
    [] OTHER -> "terminated"

\* C22: two sweeps that run at the same time over the same registry leave
\* what one sweep leaves.  The second Stop of an environment writes stopped
\* over running or stopped, the second Terminate writes terminated over
\* stopped or terminated, neither counts an error, and once the sweeps
\* have returned every record has the host state of its status.
C22_OverlappingSweepsAreSafe ==
  [][ /\ \A s \in Sweepers :
           /\ (swp[s].pc = "stop_update" /\ swp'[s].pc = "stop_loop")
              => LET k == swp[s].env.pk IN
                   /\ table[k].status \in {"running", "stopped"}
                   /\ table'[k].status = "stopped"
                   /\ hosts'[table'[k].ec2_instance_id].state = "stopped"
           /\ (swp[s].pc = "term_update" /\ swp'[s].pc = "term_loop")
              => LET k == swp[s].env.pk IN
                   /\ table[k].status \in {"stopped", "terminated"}
                   /\ table'[k].status = "terminated"
                   /\ hosts'[table'[k].ec2_instance_id].state = "terminated"
           /\ swp'[s].stats.errors = 0
      /\ NoneInFlight'
         => \A k \in Keys :
              (table'[k].present /\ table'[k].ec2_instance_id # NoId)
              => hosts'[table'[k].ec2_instance_id].state
                   = HostStateOf(table'[k].status) ]_vars

\* two sweeps with the same clock both stopped the environment, and two
\* later ones both terminated it
C22_Witness ==
  /\ NoneInFlight
  /\ \E k \in Keys, s1, s2, s3, s4 \in Sweepers :
       /\ s1 # s2 /\ s3 # s4
       /\ swp[s1].stats.stopped = 1 /\ swp[s2].stats.stopped = 1
       /\ swp[s1].now = swp[s2].now
       /\ swp[s3].stats.terminated = 1 /\ swp[s4].stats.terminated = 1
       /\ swp[s3].now = swp[s4].now
       /\ table[k].status = "terminated"
       /\ hosts[table[k].ec2_instance_id].state = "terminated"

\* C23 (I2): a record carries an ec2_instance_id only while its status is
\* running or stopped; a record that is terminated, destroyed or failed
\* carries none.
C23_HostRefOnlyWhileRunningOrStopped ==
  \A k \in Keys :
    table[k].ec2_instance_id # NoId
    => table[k].status \in {"running", "stopped"}

\* C24: error_message is present on a record only while its status is
\* failed: no record is running, stopped, terminated or destroyed and
\* carries an error_message.
C24_ErrorMessageOnlyWhileFailed ==
  \A k \in Keys :
    table[k].error_message # NoStr => table[k].status = "failed"

C26_StatusAndHostRefFromOneWriter ==
  \A s \in Sweepers : ~swp[s].stale

\* C27: Stop, Terminate, Destroy, both reconciler passes and the failed
\* update of Deploy never change a record's last_activity, branch, sha or
\* created_at; last_activity is written by Deploy's put_item only, which
\* sets it to the time of the write.
C27_OnlyPersistWritesActivity ==
  [][ \A k \in Keys :
        table'[k] # table[k]
        => IF putOrder' # putOrder
           THEN /\ table'[k].last_activity = clock
                /\ table'[k].created_at = clock
                /\ table'[k].sha = dep[Last(putOrder')].sha
                /\ table'[k].branch = dep[Last(putOrder')].branch
           ELSE /\ table'[k].last_activity = table[k].last_activity
                /\ table'[k].branch = table[k].branch
                /\ table'[k].sha = table[k].sha
                /\ table'[k].created_at = table[k].created_at ]_vars

\* a record deployed, then stopped and terminated by two sweeps, then
\* destroyed, that still has the times and the commit of its put_item
C27_Witness ==
  /\ \E s \in Sweepers : swp[s].stats.stopped = 1
  /\ \E s \in Sweepers : swp[s].stats.terminated = 1
  /\ des.pc = "done" /\ des.result = "ok"
  /\ des.existing.status = "terminated"
  /\ putOrder # << >>
  /\ \E k \in Keys :
       /\ table[k].status = "destroyed"
       /\ table[k].last_activity = table[k].created_at
       /\ table[k].created_at < table[k].updated_at
       /\ table[k].sha = dep[Last(putOrder)].sha

\* C28: every status change written to a record is a transition of the
\* lifecycle state machine: failed is written only over a record that is
\* absent (pending) or running, never over a stopped, terminated or
\* destroyed one, and a terminated or destroyed record is never written
\* back to running, stopped or failed.
C28_OnlyAllowedTransitions ==
  [][ \A k \in Keys :
        table'[k].status # table[k].status
        => /\ table'[k].status = "failed"
              => table[k].status \in {NoStr, "running"}
           /\ table[k].status \in {"terminated", "destroyed"}
              => table'[k].status \in {"terminated", "destroyed"} ]_vars

\* C29: every Deploy execution terminates: whatever the collaborators
\* answer, an execution that has started ends, either having put the
\* record as running and returned, or raising its failure to the caller.
C29_DeployTerminates ==
  \A d \in Deployers :
    (dep[d].pc # "idle")
    ~> (dep[d].pc = "done" /\ dep[d].result \in {"ok", "raised"})

\* the agent loop ran out, the command was sent on the last attempt, and
\* the poll has used up its timeout
C29_Witness ==
  \E d \in Deployers :
    /\ dep[d].pc = "poll"
    /\ dep[d].agent_timeout
    /\ dep[d].attempt = MAX_RETRIES - 1
    /\ dep[d].elapsed = START_TIMEOUT

\* the phases of handle_deploy in the order of its text, and the phase
\* that follows each
PhaseOrder == << "teardown", "launch", "wait", "ssm", "parse", "persist",
                "build" >>

PhaseAfter(pc) ==
  PhaseOrder[(CHOOSE n \in 1..(Len(PhaseOrder) - 1) : PhaseOrder[n] = pc) + 1]

\* C30: within one Deploy execution the phases happen in the order
\* teardown of the recorded host, launch, readiness wait, startup script,
\* URL parse, registry persist: an execution leaves a phase only for the
\* next one or for the failure branch, the host is launched only after the
\* teardown, and the record is written as running only by an execution
\* that is at its persist phase, with the instance it launched and the
\* URL it parsed.
C30_PhasesInOrder ==
  [][ /\ \A d \in Deployers :
           /\ ( /\ dep'[d].pc # dep[d].pc
                /\ \E n \in 1..(Len(PhaseOrder) - 1) :
                     PhaseOrder[n] = dep[d].pc )
              => dep'[d].pc \in {PhaseAfter(dep[d].pc), "fail_status"}
           /\ hosts'[NewInstanceId(d)].state # hosts[NewInstanceId(d)].state
              /\ hosts[NewInstanceId(d)].state = "none"
              => dep[d].pc = "launch" /\ dep[d].existing = NoItem
      /\ \A k \in Keys :
           (table'[k] # table[k] /\ table'[k].status = "running")
           => \E d \in Deployers :
                /\ dep[d].pc = "persist" /\ dep[d].key = k
                /\ table'[k].ec2_instance_id = dep[d].instance_id
                /\ hosts[dep[d].instance_id].state # "none"
                /\ table'[k].tunnel_url = dep[d].tunnel_url
                /\ table'[k].tunnel_url.scheme = "https"
                /\ table'[k].tunnel_url.domain = "trycloudflare.com"
                /\ table'[k].tunnel_url.label # NoId ]_vars

\* a second Deploy went through all its phases: the host of the first is
\* terminated, its own is running and recorded with the parsed URL
C30_Witness ==
  /\ nFaults = 0
  /\ dep[2].pc = "done" /\ dep[2].result = "ok"
  /\ hosts[1].state = "terminated"
  /\ hosts[2].state = "running"
  /\ \E k \in Keys :
       /\ table[k].status = "running"
       /\ table[k].ec2_instance_id = 2
       /\ table[k].tunnel_url = dep[2].tunnel_url
       /\ table[k].tunnel_url.label = 2

\* C31: during a Deploy that runs with no other unit of work in flight, no
\* two hosts of the key are live at any instant: when the record names a
\* host, that host is no longer live and the delete of its tunnel has been
\* issued at the moment the new host is launched, also when the driver
\* rejected the terminate call, and after the launch the new host is the
\* only live one.
C31_OneLiveHostDuringDeploy ==
  [][ \A d \in Deployers :
        ( /\ dep[d].pc = "launch"
          /\ dep'[d].pc = "wait"
          /\ Quiet(d)
          /\ table[dep[d].key].ec2_instance_id # NoId )
        => LET k == dep[d].key
           IN  /\ ~IsLive(hosts, table[k].ec2_instance_id)
               /\ table[k].tunnel_id # NoId
                  => table[k].tunnel_id \in tunnelCalls
               /\ LiveHostsOf(k)' = {NewInstanceId(d)} ]_vars

\* execution d launched a host and then failed in the readiness wait, the
\* command or the URL search, and has returned
LeftHostBehind(d) ==
  /\ dep[d].pc = "done"
  /\ dep[d].result = "raised"
  /\ dep[d].instance_id # NoId
  /\ dep[d].err \in {"wait", "ssm", "no_url"}

\* C32: the host of a Deploy that failed after its launch is terminated by
\* the next Deploy of the key or by the next reconciler pass: when a later
\* Deploy of the key returns normally, or a later pass returns its summary,
\* that host is no longer live, also while the pull request is open.
C32_LeftHostIsCleanedUp ==
  [][ \A d \in Deployers :
        LeftHostBehind(d)
        => /\ \A e \in Deployers \ {d} :
                ( /\ dep[e].pc # "done"
                  /\ dep'[e].pc = "done"
                  /\ dep'[e].result = "ok"
                  /\ dep[e].key = dep[d].key )
                => ~IsLive(hosts', dep[d].instance_id)
           /\ ReconcileReturns => ~IsLive(hosts', dep[d].instance_id) ]_vars

\* C33: a Stop of a record whose host is already stopped or gone, or whose
\* stop call the driver rejects, is a success: the hosts stay as they are,
\* the update follows, and when it is written the record is stopped with
\* every other field (the tunnel fields among them) kept, the stop is
\* counted and no error is.  A running record with no ec2_instance_id is
\* taken off the list with no call, no write and no error counted.
C33_StopOfStoppedOrGoneSucceeds ==
  [][ \A s \in Sweepers :
        /\ ( /\ swp[s].pc = "stop_loop"
             /\ swp'[s].pc = "stop_update" )
           => LET i == swp'[s].env.item.ec2_instance_id IN
                /\ swp'[s].stats = swp[s].stats
                /\ (hosts[i].state # "running" \/ nFaults' # nFaults)
                   => hosts' = hosts
        /\ ( /\ swp[s].pc = "stop_update"
             /\ swp'[s].pc = "stop_loop"
             /\ nFaults' = nFaults )
           => LET k == swp[s].env.pk IN
                /\ table'[k] = [table[k] EXCEPT !.status = "stopped",
                                                !.updated_at = clock]
                /\ swp'[s].stats.stopped = swp[s].stats.stopped + 1
                /\ swp'[s].stats.errors = swp[s].stats.errors
        /\ \A e \in swp[s].queue :
             ( /\ swp[s].pc = "stop_loop"
               /\ e \notin swp'[s].queue
               /\ e.item.ec2_instance_id = NoId )
             => /\ swp'[s].pc = "stop_loop"
                /\ swp'[s].stats = swp[s].stats
                /\ hosts' = hosts
                /\ table' = table ]_vars

\* a sweep stopped a record whose host was gone: no error was counted
\* and the record kept its tunnel
C33_Witness ==
  \E k \in Keys, s \in Sweepers :
    /\ nFaults = 0
    /\ swp[s].pc = "done"
    /\ swp[s].stats = [stopped |-> 1, terminated |-> 0, errors |-> 0]
    /\ table[k].status = "stopped"
    /\ table[k].tunnel_id # NoId
    /\ table[k].tunnel_url # NoUrl
    /\ table[k].ec2_instance_id # NoId
    /\ hosts[table[k].ec2_instance_id].state \in {"none", "terminated"}

\* C34: the stale-record pass issues no call that changes a host or a
\* tunnel; the only thing it writes is status terminated and updated_at,
\* on a running record whose host is missing or terminated; and it takes a
\* running record whose host is pending, running or stopped off its list
\* without writing.
C34_StalePassOnlyMarksTerminated ==
  [][ /\ rec.pc \in {"stale_loop", "stale_update"}
         => /\ hosts' = hosts
            /\ tunnelCalls' = tunnelCalls
            /\ \A k \in Keys :
                 table'[k] # table[k]
                 => /\ rec.pc = "stale_update" /\ k = rec.pk
                    /\ table[k].status = "running"
                    /\ hosts[table[k].ec2_instance_id].state
                         \in {"none", "terminated", "shutting-down"}
                    /\ table'[k] = [table[k] EXCEPT !.status = "terminated",
                                                    !.updated_at = clock]
      /\ \A e \in rec.envs :
           ( /\ rec.pc = "stale_loop"
             /\ e \notin rec'.envs
             /\ e.item.ec2_instance_id # NoId
             /\ hosts[e.item.ec2_instance_id].state \in LiveStates )
           => rec'.pc = "stale_loop" ]_vars

\* a pass found a running record whose host a Destroy had terminated
\* before its own update failed: it set the record to terminated and left
\* the tunnel alone
C34_Witness ==
  /\ rec.pc = "done"
  /\ rec.stats.stale_dynamo_fixed = 1
  /\ rec.stats.orphaned_ec2_terminated = 0
  /\ des.pc = "done" /\ des.result = "raised"
  /\ \E k \in Keys :
       /\ table[k].status = "terminated"
       /\ table[k].updated_at = clock
       /\ table[k].tunnel_id # NoId
       /\ table[k].tunnel_id \notin tunnelCalls
       /\ hosts[table[k].ec2_instance_id].state = "terminated"

\* d occurs in the sequence of executions
Occurs(seq, d) == \E n \in 1..Len(seq) : seq[n] = d

\* C35: when the command has reported success and no line of its output
\* matches the TUNNEL_URL pattern, the Deploy takes the failure branch with
\* an error of its own, different from the one of a command that failed;
\* it returns by raising, having put no running record, and the record is
\* failed with that error once the update of the failure branch is
\* written.  No running record is ever written without a tunnel_url.
C35_NoUrlFailsDeploy ==
  [][ /\ \A d \in Deployers :
           /\ ( /\ dep[d].pc = "parse"
                /\ dep'[d].pc # "parse"
                /\ \A j \in 1..Len(dep[d].stdout) :
                     ~LineMatches(dep[d].stdout[j]) )
              => /\ dep'[d].pc = "fail_status"
                 /\ dep'[d].err = "no_url"
                 /\ table' = table
           /\ ( /\ dep[d].pc = "ssm"
                /\ dep'[d].pc = "fail_status" )
              => dep'[d].err # "no_url"
           /\ ( /\ dep[d].pc = "fail_update"
                /\ dep'[d].pc = "done"
                /\ dep[d].err = "no_url" )
              => /\ dep'[d].result = "raised"
                 /\ ~Occurs(putOrder', d)
                 /\ "update_item" \notin dep'[d].swallowed
                    => /\ table'[dep[d].key].status = "failed"
                       /\ table'[dep[d].key].error_message = "no_url"
      /\ \A k \in Keys :
           table'[k].status = "running" => table'[k].tunnel_url # NoUrl ]_vars

\* the command succeeded with no matching line in its output: the Deploy
\* raised, the record is failed with the error of the missing URL, and the
\* host it launched is still running
C35_Witness ==
  \E d \in Deployers :
    /\ dep[d].pc = "done"
    /\ dep[d].result = "raised"
    /\ dep[d].err = "no_url"
    /\ dep[d].swallowed = {}
    /\ ~Occurs(putOrder, d)
    /\ hosts[dep[d].instance_id].state = "running"
    /\ table[dep[d].key].status = "failed"
    /\ table[dep[d].key].error_message = "no_url"
    /\ table[dep[d].key].tunnel_url = NoUrl

\* C36: the summary of a reconciler pass says what the pass did: every
\* host the orphan pass had terminated is counted in
\* orphaned_ec2_terminated and nothing else is; stale_dynamo_fixed goes up
\* exactly when the stale pass writes terminated on a record; prs_checked
\* goes up only when the check of an instance's pull request has answered;
\* and errors goes up by at most one per instance or record.
C36_SummaryMatchesThePass ==
  [][ /\ ( /\ rec.pc = "orphan_update"
           /\ rec'.pc = "orphan_loop"
           /\ hosts[rec.instance.instance_id].state = "terminated" )
         => rec'.stats.orphaned_ec2_terminated
              = rec.stats.orphaned_ec2_terminated + 1
      /\ ( /\ rec'.pc # "idle"
           /\ rec'.stats.orphaned_ec2_terminated
                # rec.stats.orphaned_ec2_terminated
           /\ rec'.stats # NoRecStats )
         => /\ rec.pc = "orphan_update"
            /\ hosts[rec.instance.instance_id].state = "terminated"
      /\ rec.pc \in {"stale_loop", "stale_update"}
         => ( rec'.stats.stale_dynamo_fixed = rec.stats.stale_dynamo_fixed + 1
              <=> table' # table )
      /\ rec.pc \in {"stale_loop", "stale_update"}
         => ( rec'.stats.stale_dynamo_fixed = rec.stats.stale_dynamo_fixed
              <=> table' = table )
      /\ ( /\ rec.pc = "orphan_loop"
           /\ rec'.stats.prs_checked # rec.stats.prs_checked )
         => /\ rec'.stats.prs_checked = rec.stats.prs_checked + 1
            /\ \E inst \in rec.instances \ rec'.instances :
                 prState[inst.key] \in {"open", "closed"}
      /\ ( rec.pc \notin {"idle", "done"} /\ rec'.pc # "done" )
         => rec'.stats.errors \in {rec.stats.errors, rec.stats.errors + 1}
    ]_vars

\* C37: the builds log is append-only: the put_item of a Deploy adds one
\* item to the log and leaves every item already there as it was, also
\* when an earlier Deploy of the same commit started in the same second;
\* no other step changes the log.
C37_BuildLogIsAppendOnly ==
  [][ /\ builds \subseteq builds'
      /\ \A d \in Deployers :
           (dep[d].pc = "build" /\ dep'[d].pc = "success_status")
           => Cardinality(builds') = Cardinality(builds) + 1 ]_vars

\* C38: a running record always has its ec2_instance_id, tunnel_id and
\* tunnel_url set: running is written only by the put_item of a Deploy,
\* which writes the whole record, and every other write sets the status to
\* stopped, terminated, destroyed or failed.
C38_RunningRecordIsComplete ==
  [][ \A k \in Keys :
        /\ table'[k].status = "running"
           => /\ table'[k].ec2_instance_id # NoId
              /\ table'[k].tunnel_id # NoId
              /\ table'[k].tunnel_url # NoUrl
        /\ table'[k] # table[k]
           => IF putOrder' # putOrder
              THEN /\ table'[k].status = "running"
                   /\ dep[Last(putOrder')].pc = "persist"
                   /\ table'[k].ec2_instance_id
                        = dep[Last(putOrder')].instance_id
              ELSE table'[k].status
                     \in {"stopped", "terminated", "destroyed", "failed"}
    ]_vars

\* a record that was running, then destroyed, and is running again after a
\* second Deploy, with the host, the tunnel and the URL of that Deploy
C38_Witness ==
  /\ des.pc = "done" /\ des.result = "ok"
  /\ des.existing.status = "running"
  /\ des.existing.ec2_instance_id = 1
  /\ Len(putOrder) = 2
  /\ \E k \in Keys :
       /\ table[k].status = "running"
       /\ table[k].ec2_instance_id = 2
       /\ table[k].tunnel_id = 2
       /\ table[k].tunnel_url = MatchedUrl(GoodStdout(2))

\* C39: a record a sweep has set to stopped is not terminated by the
\* terminate pass of the same sweep: the Stop writes an updated_at that is
\* not earlier than the start of the sweep, and the sweep terminates only
\* records whose updated_at is older than its start by more than the
\* retention period, so a sweep that stopped the record takes no
\* terminate step for it.
C39_StoppedNowIsNotTerminatedNow ==
  [][ \A s \in Sweepers :
        /\ ( /\ swp[s].pc = "stop_update"
             /\ swp'[s].pc = "stop_loop"
             /\ table' # table )
           => /\ table'[swp[s].env.pk].status = "stopped"
              /\ table'[swp[s].env.pk].updated_at >= swp[s].now
        /\ ( /\ swp[s].pc = "term_loop"
             /\ swp'[s].pc = "term_update" )
           => /\ swp'[s].env.item.updated_at < swp[s].now - TERMINATE_HOURS
              /\ swp[s].stats.stopped = 0 ]_vars

\* a sweep stopped a record that had not been written for longer than the
\* retention period and did not terminate it; a sweep after another
\* retention period did
C39_Witness ==
  \E k \in Keys, r, s \in Sweepers :
    /\ swp[s].pc = "done"
    /\ swp[s].stats.stopped = 1 /\ swp[s].stats.terminated = 0
    /\ table[k].created_at < swp[s].now - TERMINATE_HOURS
    /\ swp[r].pc = "done"
    /\ swp[r].stats.stopped = 0 /\ swp[r].stats.terminated = 1
    /\ swp[r].now - TERMINATE_HOURS > swp[s].now
    /\ table[k].status = "terminated"

\* C40: once the pull request of a key is closed, with no Deploy of the
\* key starting any more and the reconciler passes going on, the moment
\* comes from which on no host launched for the key is live and the record
\* of the key is not running; this includes the host of a Deploy that was
\* in flight when the pull request was closed or the Destroy ran.
C40_ClosedKeyConverges ==
  \A k \in Keys :
    (prState[k] = "closed")
    ~> [](LiveHostsOf(k) = {} /\ table[k].status # "running")

\* the pull request was closed while a Deploy was in flight: a pass
\* terminated its host, the Deploy then put its running record, and a later
\* pass set that record to terminated
C40_Witness ==
  /\ nFaults = 0
  /\ nDestroys = 0
  /\ rec.pc = "done"
  /\ rec.stats.stale_dynamo_fixed = 1
  /\ \E k \in Keys, d \in Deployers :
       /\ prState[k] = "closed"
       /\ dep[d].pc = "done" /\ dep[d].result = "ok" /\ dep[d].key = k
       /\ hosts[dep[d].instance_id].state = "terminated"
       /\ table[k].ec2_instance_id = dep[d].instance_id
       /\ table[k].status = "terminated"
       /\ LiveHostsOf(k) = {}

====
